---------------------------- MODULE Spec2Model ----------------------------
(***************************************************************************)
(* Model of the zone-data acquisition and normalisation pipeline of the    *)
(* NBA shot comparison scripts: BasketballReferenceScraper (search_player, *)
(* get_player_shooting_data, _parse_shooting_table, _create_sample_data),  *)
(* the standalone sample generators (get_sample_data,                      *)
(* get_enhanced_sample_data) and the two copies of _calculate_total_stats. *)
(*                                                                         *)
(* Python strings are sequences of one-character strings, so that lower(), *)
(* strip(), substring tests, the regular expressions and int()/float() are *)
(* computed on the characters.  A Python float is an exact fraction        *)
(* [kind, num, den]; None is the one-element sequence <<"None">>, which no *)
(* string of characters equals.                                            *)
(***************************************************************************)
EXTENDS Integers, Sequences, FiniteSets, TLC

(***************************************************************************)
(* Bounds of the explored inputs.                                          *)
(***************************************************************************)
MaxLinks == 2        \* links in a search response
MaxSeasonLinks == 2  \* links on a player page
MaxRows == 2         \* rows of a table handed to _parse_shooting_table alone
MaxPageRows == 1     \* rows of a table met inside get_player_shooting_data
MaxZones == 2        \* keys of a profile handed to _calculate_total_stats
MaxCalls == 3        \* calls in a sequence of calls of one function

(***************************************************************************)
(* String literals of the source and of the explored inputs.               *)
(***************************************************************************)
None == <<"None">>
EmptyStr == <<>>

LeBron_James == <<"L", "e", "B", "r", "o", "n", " ", "J", "a", "m", "e", "s">>
Stephen_Curry == <<"S", "t", "e", "p", "h", "e", "n", " ", "C", "u", "r", "r", "y">>
curry_query == <<"c", "u", "r", "r", "y">>
zzzznotaplayer == <<"z", "z", "z", "z", "n", "o", "t", "a", "p", "l", "a", "y", "e", "r">>
Seth_Curry == <<"S", "e", "t", "h", " ", "C", "u", "r", "r", "y">>
LEBRON_JAMES == <<"L", "E", "B", "R", "O", "N", " ", "J", "A", "M", "E", "S">>
href_curryst01 == <<"/", "p", "l", "a", "y", "e", "r", "s", "/", "c", "/", "c", "u", "r", "r", "y", "s", "t", "0", "1", ".", "h", "t", "m", "l">>
href_curryse01 == <<"/", "p", "l", "a", "y", "e", "r", "s", "/", "c", "/", "c", "u", "r", "r", "y", "s", "e", "0", "1", ".", "h", "t", "m", "l">>
href_jamesle01 == <<"/", "p", "l", "a", "y", "e", "r", "s", "/", "j", "/", "j", "a", "m", "e", "s", "l", "e", "0", "1", ".", "h", "t", "m", "l">>
href_team == <<"/", "t", "e", "a", "m", "s", "/", "L", "A", "L", "/", "2", "0", "2", "4", ".", "h", "t", "m", "l">>
Shooting_text == <<"S", "h", "o", "o", "t", "i", "n", "g">>
Advanced_text == <<"A", "d", "v", "a", "n", "c", "e", "d", " ", "S", "t", "a", "t", "s">>
href_shooting_2024 == <<"/", "s", "h", "o", "o", "t", "i", "n", "g", "/", "2", "0", "2", "4", ".", "h", "t", "m", "l">>
href_shooting_2023 == <<"/", "s", "h", "o", "o", "t", "i", "n", "g", "/", "2", "0", "2", "3", ".", "h", "t", "m", "l">>
href_splits_2024 == <<"/", "s", "p", "l", "i", "t", "s", "/", "2", "0", "2", "4", ".", "h", "t", "m", "l">>
Season2024 == <<"2", "0", "2", "4">>
Season2023 == <<"2", "0", "2", "3">>
KEY_player_name == <<"p", "l", "a", "y", "e", "r", "_", "n", "a", "m", "e">>
KEY_season == <<"s", "e", "a", "s", "o", "n">>
Restricted_Area == <<"R", "e", "s", "t", "r", "i", "c", "t", "e", "d", " ", "A", "r", "e", "a">>
In_The_Paint == <<"I", "n", " ", "T", "h", "e", " ", "P", "a", "i", "n", "t", " ", "(", "N", "o", "n", "-", "R", "A", ")">>
Mid_Range == <<"M", "i", "d", "-", "R", "a", "n", "g", "e">>
Left_Corner_3 == <<"L", "e", "f", "t", " ", "C", "o", "r", "n", "e", "r", " ", "3">>
Right_Corner_3 == <<"R", "i", "g", "h", "t", " ", "C", "o", "r", "n", "e", "r", " ", "3">>
Above_the_Break_3 == <<"A", "b", "o", "v", "e", " ", "t", "h", "e", " ", "B", "r", "e", "a", "k", " ", "3">>
ZoneHeader == <<"Z", "o", "n", "e">>
pat_curry == <<"c", "u", "r", "r", "y">>
pat_lebron == <<"l", "e", "b", "r", "o", "n">>
pat_james == <<"j", "a", "m", "e", "s">>
pat_shooting == <<"s", "h", "o", "o", "t", "i", "n", "g">>
pat_players == <<"/", "p", "l", "a", "y", "e", "r", "s", "/">>
pat_html == <<"h", "t", "m", "l">>

(***************************************************************************)
(* str methods and the two regular expressions.                            *)
(***************************************************************************)
UpperLetters == <<"A", "B", "C", "D", "E", "F", "G", "H", "I", "J", "K", "L", "M", "N", "O", "P", "Q", "R", "S", "T", "U", "V", "W", "X", "Y", "Z">>
LowerLetters == <<"a", "b", "c", "d", "e", "f", "g", "h", "i", "j", "k", "l", "m", "n", "o", "p", "q", "r", "s", "t", "u", "v", "w", "x", "y", "z">>
DigitChars == <<"0", "1", "2", "3", "4", "5", "6", "7", "8", "9">>
WhiteSpace == {" ", "\t", "\n"}

Range(s) == {s[i] : i \in 1..Len(s)}

LowerChar(c) ==
    IF c \in Range(UpperLetters)
    THEN LowerLetters[CHOOSE i \in 1..26 : UpperLetters[i] = c]
    ELSE c

\* str.lower()
Lower(s) == [i \in 1..Len(s) |-> LowerChar(s[i])]

\* needle in hay
Contains(hay, needle) ==
    \E i \in 0..(Len(hay) - Len(needle)) :
        SubSeq(hay, i + 1, i + Len(needle)) = needle

\* str.strip()
RECURSIVE LStrip(_)
LStrip(s) == IF s # <<>> /\ Head(s) \in WhiteSpace THEN LStrip(Tail(s)) ELSE s

RECURSIVE RStrip(_)
RStrip(s) ==
    IF s # <<>> /\ s[Len(s)] \in WhiteSpace
    THEN RStrip(SubSeq(s, 1, Len(s) - 1))
    ELSE s

Strip(s) == RStrip(LStrip(s))

\* str.rstrip('%')
RECURSIVE RStripPct(_)
RStripPct(s) ==
    IF s # <<>> /\ s[Len(s)] = "%"
    THEN RStripPct(SubSeq(s, 1, Len(s) - 1))
    ELSE s

\* re.compile(r'/players/[a-z]/').search(href)
MatchesPlayersHref(href) ==
    \E i \in 1..(Len(href) - 10) :
        /\ SubSeq(href, i, i + 8) = pat_players
        /\ href[i + 9] \in Range(LowerLetters)
        /\ href[i + 10] = "/"

\* re.compile(f'/{season}.html').search(href); the dot matches any character
\* but a newline
MatchesSeasonHref(href, s) ==
    \E i \in 1..(Len(href) - Len(s) - 5) :
        /\ href[i] = "/"
        /\ SubSeq(href, i + 1, i + Len(s)) = s
        /\ href[i + Len(s) + 1] # "\n"
        /\ SubSeq(href, i + Len(s) + 2, i + Len(s) + 5) = pat_html

(***************************************************************************)
(* Python numbers.  A float is an exact fraction in lowest terms.          *)
(***************************************************************************)
RECURSIVE GCD(_, _)
GCD(a, b) == IF b = 0 THEN a ELSE GCD(b, a % b)

Abs(n) == IF n < 0 THEN -n ELSE n

Float(n, d) ==
    LET g == GCD(Abs(n), d)
    IN  [kind |-> "finite", num |-> n \div g, den |-> d \div g]

NaN == [kind |-> "nan", num |-> 0, den |-> 1]
Inf == [kind |-> "inf", num |-> 1, den |-> 1]
NegInf == [kind |-> "inf", num |-> -1, den |-> 1]

\* a literal with one decimal, as the source writes its percentages
Tenths(n) == Float(n, 10)

(***************************************************************************)
(* Dictionaries: functions from keys (strings) to values.                  *)
(***************************************************************************)
EmptyDict == <<>>

Put(d, k, v) == [x \in (DOMAIN d) \cup {k} |-> IF x = k THEN v ELSE d[x]]

Stat(fgm, fga, pct) == [FGM |-> fgm, FGA |-> fga, FGpct |-> pct]


(***************************************************************************)
(* search_player.  A response is either an error (the request or the       *)
(* parser raised) or the document's links in document order, each a        *)
(* (text, href) pair.                                                      *)
(***************************************************************************)
ErrorResponse == [ok |-> FALSE, links |-> <<>>]
OkResponse(links) == [ok |-> TRUE, links |-> links]

\* soup.find_all('a', href=re.compile(r'/players/[a-z]/'))
player_links(links) == SelectSeq(links, LAMBDA l : MatchesPlayersHref(l.href))

\* for link in player_links: if player_name.lower() in link.get_text().lower()
RECURSIVE first_matching_link(_, _)
first_matching_link(links, player_name) ==
    IF links = <<>> THEN None
    ELSE IF Contains(Lower(Head(links).text), Lower(player_name))
         THEN Head(links).href
         ELSE first_matching_link(Tail(links), player_name)

RECURSIVE last_matching_link(_, _)
last_matching_link(links, player_name) ==
    IF links = <<>> THEN None
    ELSE IF Contains(Lower(links[Len(links)].text), Lower(player_name))
         THEN links[Len(links)].href
         ELSE last_matching_link(SubSeq(links, 1, Len(links) - 1), player_name)

search_player_last_match(player_name, response) ==
    IF ~response.ok THEN None
    ELSE last_matching_link(player_links(response.links), player_name)

search_player_raising(player_name, response) ==
    IF ~response.ok THEN <<"raise">>
    ELSE first_matching_link(player_links(response.links), player_name)

search_player_guessing(player_name, response) ==
    IF ~response.ok THEN href_curryst01
    ELSE first_matching_link(player_links(response.links), player_name)

search_player(player_name, response) ==
    IF ~response.ok THEN None
    ELSE first_matching_link(player_links(response.links), player_name)

(***************************************************************************)
(* _create_sample_data of webScraper.py.                                   *)
(***************************************************************************)
sample_curry ==
    [z \in {Restricted_Area, In_The_Paint, Mid_Range, Left_Corner_3,
            Right_Corner_3, Above_the_Break_3} |->
        CASE z = Restricted_Area -> Stat(45, 60, Tenths(750))
          [] z = In_The_Paint -> Stat(25, 50, Tenths(500))
          [] z = Mid_Range -> Stat(30, 80, Tenths(375))
          [] z = Left_Corner_3 -> Stat(15, 30, Tenths(500))
          [] z = Right_Corner_3 -> Stat(18, 35, Tenths(514))
          [] z = Above_the_Break_3 -> Stat(120, 300, Tenths(400))]

sample_lebron ==
    [z \in {Restricted_Area, In_The_Paint, Mid_Range, Left_Corner_3,
            Right_Corner_3, Above_the_Break_3} |->
        CASE z = Restricted_Area -> Stat(180, 250, Tenths(720))
          [] z = In_The_Paint -> Stat(80, 150, Tenths(533))
          [] z = Mid_Range -> Stat(60, 120, Tenths(500))
          [] z = Left_Corner_3 -> Stat(25, 60, Tenths(417))
          [] z = Right_Corner_3 -> Stat(30, 70, Tenths(429))
          [] z = Above_the_Break_3 -> Stat(45, 150, Tenths(300))]

sample_generic ==
    [z \in {Restricted_Area, In_The_Paint, Mid_Range, Left_Corner_3,
            Right_Corner_3, Above_the_Break_3} |->
        CASE z = Restricted_Area -> Stat(100, 150, Tenths(667))
          [] z = In_The_Paint -> Stat(50, 100, Tenths(500))
          [] z = Mid_Range -> Stat(40, 100, Tenths(400))
          [] z = Left_Corner_3 -> Stat(20, 50, Tenths(400))
          [] z = Right_Corner_3 -> Stat(25, 60, Tenths(417))
          [] z = Above_the_Break_3 -> Stat(60, 180, Tenths(333))]

sample_zones_case_sensitive(player_name) ==
    IF Contains(player_name, pat_curry) THEN sample_curry
    ELSE IF \/ Contains(player_name, pat_lebron)
            \/ Contains(player_name, pat_james) THEN sample_lebron
    ELSE sample_generic

sample_zones_james_first(player_name) ==
    IF \/ Contains(Lower(player_name), pat_lebron)
       \/ Contains(Lower(player_name), pat_james) THEN sample_lebron
    ELSE IF Contains(Lower(player_name), pat_curry) THEN sample_curry
    ELSE sample_generic

\* the if / elif / else dispatch on the lower-cased name
sample_zones(player_name) ==
    IF Contains(Lower(player_name), pat_curry) THEN sample_curry
    ELSE IF \/ Contains(Lower(player_name), pat_lebron)
            \/ Contains(Lower(player_name), pat_james) THEN sample_lebron
    ELSE sample_generic

create_sample_data(player_name) ==
    Put(Put(sample_zones(player_name), KEY_player_name, player_name),
        KEY_season, Season2024)

(***************************************************************************)
(* The standalone sample generators: get_sample_data of demo.py and the    *)
(* two copies of get_enhanced_sample_data (scatter_charts.py and           *)
(* multi_player_charts.py).  Each returns the zones only.                  *)
(***************************************************************************)
Free_Throws == <<"F", "r", "e", "e", " ", "T", "h", "r", "o", "w", "s">>
pat_durant == <<"d", "u", "r", "a", "n", "t">>
pat_giannis == <<"g", "i", "a", "n", "n", "i", "s">>
pat_antetokounmpo == <<"a", "n", "t", "e", "t", "o", "k", "o", "u", "n", "m", "p", "o">>
pat_embiid == <<"e", "m", "b", "i", "i", "d">>

\* demo.py lines 151-158
demo_curry ==
    [z \in {Restricted_Area, In_The_Paint, Mid_Range, Left_Corner_3, Right_Corner_3, Above_the_Break_3} |->
        CASE z = Restricted_Area -> Stat(45, 60, Tenths(750))
          [] z = In_The_Paint -> Stat(25, 50, Tenths(500))
          [] z = Mid_Range -> Stat(30, 80, Tenths(375))
          [] z = Left_Corner_3 -> Stat(15, 30, Tenths(500))
          [] z = Right_Corner_3 -> Stat(18, 35, Tenths(514))
          [] z = Above_the_Break_3 -> Stat(120, 300, Tenths(400))]

\* demo.py lines 160-167
demo_lebron ==
    [z \in {Restricted_Area, In_The_Paint, Mid_Range, Left_Corner_3, Right_Corner_3, Above_the_Break_3} |->
        CASE z = Restricted_Area -> Stat(180, 250, Tenths(720))
          [] z = In_The_Paint -> Stat(80, 150, Tenths(533))
          [] z = Mid_Range -> Stat(60, 120, Tenths(500))
          [] z = Left_Corner_3 -> Stat(25, 60, Tenths(417))
          [] z = Right_Corner_3 -> Stat(30, 70, Tenths(429))
          [] z = Above_the_Break_3 -> Stat(45, 150, Tenths(300))]

\* demo.py lines 169-176
demo_durant ==
    [z \in {Restricted_Area, In_The_Paint, Mid_Range, Left_Corner_3, Right_Corner_3, Above_the_Break_3} |->
        CASE z = Restricted_Area -> Stat(120, 180, Tenths(667))
          [] z = In_The_Paint -> Stat(40, 80, Tenths(500))
          [] z = Mid_Range -> Stat(80, 150, Tenths(533))
          [] z = Left_Corner_3 -> Stat(20, 45, Tenths(444))
          [] z = Right_Corner_3 -> Stat(25, 50, Tenths(500))
          [] z = Above_the_Break_3 -> Stat(60, 180, Tenths(333))]

\* demo.py lines 179-186
demo_generic_drifted == Put(sample_generic, Mid_Range, Stat(41, 100, Tenths(410)))

demo_generic ==
    [z \in {Restricted_Area, In_The_Paint, Mid_Range, Left_Corner_3, Right_Corner_3, Above_the_Break_3} |->
        CASE z = Restricted_Area -> Stat(100, 150, Tenths(667))
          [] z = In_The_Paint -> Stat(50, 100, Tenths(500))
          [] z = Mid_Range -> Stat(40, 100, Tenths(400))
          [] z = Left_Corner_3 -> Stat(20, 50, Tenths(400))
          [] z = Right_Corner_3 -> Stat(25, 60, Tenths(417))
          [] z = Above_the_Break_3 -> Stat(60, 180, Tenths(333))]

\* scatter_charts.py lines 252-260
scatter_curry ==
    [z \in {Restricted_Area, In_The_Paint, Mid_Range, Left_Corner_3, Right_Corner_3, Above_the_Break_3, Free_Throws} |->
        CASE z = Restricted_Area -> Stat(45, 60, Tenths(750))
          [] z = In_The_Paint -> Stat(25, 50, Tenths(500))
          [] z = Mid_Range -> Stat(30, 80, Tenths(375))
          [] z = Left_Corner_3 -> Stat(15, 30, Tenths(500))
          [] z = Right_Corner_3 -> Stat(18, 35, Tenths(514))
          [] z = Above_the_Break_3 -> Stat(120, 300, Tenths(400))
          [] z = Free_Throws -> Stat(180, 200, Tenths(900))]

\* scatter_charts.py lines 262-270
scatter_lebron ==
    [z \in {Restricted_Area, In_The_Paint, Mid_Range, Left_Corner_3, Right_Corner_3, Above_the_Break_3, Free_Throws} |->
        CASE z = Restricted_Area -> Stat(180, 250, Tenths(720))
          [] z = In_The_Paint -> Stat(80, 150, Tenths(533))
          [] z = Mid_Range -> Stat(60, 120, Tenths(500))
          [] z = Left_Corner_3 -> Stat(25, 60, Tenths(417))
          [] z = Right_Corner_3 -> Stat(30, 70, Tenths(429))
          [] z = Above_the_Break_3 -> Stat(45, 150, Tenths(300))
          [] z = Free_Throws -> Stat(200, 280, Tenths(714))]

\* scatter_charts.py lines 272-280
scatter_durant ==
    [z \in {Restricted_Area, In_The_Paint, Mid_Range, Left_Corner_3, Right_Corner_3, Above_the_Break_3, Free_Throws} |->
        CASE z = Restricted_Area -> Stat(120, 180, Tenths(667))
          [] z = In_The_Paint -> Stat(40, 80, Tenths(500))
          [] z = Mid_Range -> Stat(80, 150, Tenths(533))
          [] z = Left_Corner_3 -> Stat(20, 45, Tenths(444))
          [] z = Right_Corner_3 -> Stat(25, 50, Tenths(500))
          [] z = Above_the_Break_3 -> Stat(60, 180, Tenths(333))
          [] z = Free_Throws -> Stat(160, 180, Tenths(889))]

\* scatter_charts.py lines 282-290
scatter_giannis ==
    [z \in {Restricted_Area, In_The_Paint, Mid_Range, Left_Corner_3, Right_Corner_3, Above_the_Break_3, Free_Throws} |->
        CASE z = Restricted_Area -> Stat(200, 280, Tenths(714))
          [] z = In_The_Paint -> Stat(100, 180, Tenths(556))
          [] z = Mid_Range -> Stat(20, 60, Tenths(333))
          [] z = Left_Corner_3 -> Stat(10, 30, Tenths(333))
          [] z = Right_Corner_3 -> Stat(12, 35, Tenths(343))
          [] z = Above_the_Break_3 -> Stat(25, 100, Tenths(250))
          [] z = Free_Throws -> Stat(300, 450, Tenths(667))]

\* scatter_charts.py lines 293-301
scatter_generic ==
    [z \in {Restricted_Area, In_The_Paint, Mid_Range, Left_Corner_3, Right_Corner_3, Above_the_Break_3, Free_Throws} |->
        CASE z = Restricted_Area -> Stat(100, 150, Tenths(667))
          [] z = In_The_Paint -> Stat(50, 100, Tenths(500))
          [] z = Mid_Range -> Stat(40, 100, Tenths(400))
          [] z = Left_Corner_3 -> Stat(20, 50, Tenths(400))
          [] z = Right_Corner_3 -> Stat(25, 60, Tenths(417))
          [] z = Above_the_Break_3 -> Stat(60, 180, Tenths(333))
          [] z = Free_Throws -> Stat(120, 150, Tenths(800))]

\* multi_player_charts.py lines 249-257
multi_curry ==
    [z \in {Restricted_Area, In_The_Paint, Mid_Range, Left_Corner_3, Right_Corner_3, Above_the_Break_3, Free_Throws} |->
        CASE z = Restricted_Area -> Stat(45, 60, Tenths(750))
          [] z = In_The_Paint -> Stat(25, 50, Tenths(500))
          [] z = Mid_Range -> Stat(30, 80, Tenths(375))
          [] z = Left_Corner_3 -> Stat(15, 30, Tenths(500))
          [] z = Right_Corner_3 -> Stat(18, 35, Tenths(514))
          [] z = Above_the_Break_3 -> Stat(120, 300, Tenths(400))
          [] z = Free_Throws -> Stat(180, 200, Tenths(900))]

\* multi_player_charts.py lines 259-267
multi_lebron ==
    [z \in {Restricted_Area, In_The_Paint, Mid_Range, Left_Corner_3, Right_Corner_3, Above_the_Break_3, Free_Throws} |->
        CASE z = Restricted_Area -> Stat(180, 250, Tenths(720))
          [] z = In_The_Paint -> Stat(80, 150, Tenths(533))
          [] z = Mid_Range -> Stat(60, 120, Tenths(500))
          [] z = Left_Corner_3 -> Stat(25, 60, Tenths(417))
          [] z = Right_Corner_3 -> Stat(30, 70, Tenths(429))
          [] z = Above_the_Break_3 -> Stat(45, 150, Tenths(300))
          [] z = Free_Throws -> Stat(200, 280, Tenths(714))]

\* multi_player_charts.py lines 269-277
multi_durant ==
    [z \in {Restricted_Area, In_The_Paint, Mid_Range, Left_Corner_3, Right_Corner_3, Above_the_Break_3, Free_Throws} |->
        CASE z = Restricted_Area -> Stat(120, 180, Tenths(667))
          [] z = In_The_Paint -> Stat(40, 80, Tenths(500))
          [] z = Mid_Range -> Stat(80, 150, Tenths(533))
          [] z = Left_Corner_3 -> Stat(20, 45, Tenths(444))
          [] z = Right_Corner_3 -> Stat(25, 50, Tenths(500))
          [] z = Above_the_Break_3 -> Stat(60, 180, Tenths(333))
          [] z = Free_Throws -> Stat(160, 180, Tenths(889))]

\* multi_player_charts.py lines 279-287
multi_giannis ==
    [z \in {Restricted_Area, In_The_Paint, Mid_Range, Left_Corner_3, Right_Corner_3, Above_the_Break_3, Free_Throws} |->
        CASE z = Restricted_Area -> Stat(200, 280, Tenths(714))
          [] z = In_The_Paint -> Stat(100, 180, Tenths(556))
          [] z = Mid_Range -> Stat(20, 60, Tenths(333))
          [] z = Left_Corner_3 -> Stat(10, 30, Tenths(333))
          [] z = Right_Corner_3 -> Stat(12, 35, Tenths(343))
          [] z = Above_the_Break_3 -> Stat(25, 100, Tenths(250))
          [] z = Free_Throws -> Stat(300, 450, Tenths(667))]

multi_embiid_pct_typo ==
    [z \in {Restricted_Area, In_The_Paint, Mid_Range, Left_Corner_3, Right_Corner_3, Above_the_Break_3, Free_Throws} |->
        CASE z = Restricted_Area -> Stat(150, 200, Tenths(750))
          [] z = In_The_Paint -> Stat(60, 120, Tenths(500))
          [] z = Mid_Range -> Stat(40, 100, Tenths(410))
          [] z = Left_Corner_3 -> Stat(15, 40, Tenths(375))
          [] z = Right_Corner_3 -> Stat(18, 45, Tenths(400))
          [] z = Above_the_Break_3 -> Stat(30, 120, Tenths(250))
          [] z = Free_Throws -> Stat(250, 300, Tenths(833))]

\* multi_player_charts.py lines 289-297
multi_embiid ==
    [z \in {Restricted_Area, In_The_Paint, Mid_Range, Left_Corner_3, Right_Corner_3, Above_the_Break_3, Free_Throws} |->
        CASE z = Restricted_Area -> Stat(150, 200, Tenths(750))
          [] z = In_The_Paint -> Stat(60, 120, Tenths(500))
          [] z = Mid_Range -> Stat(40, 100, Tenths(400))
          [] z = Left_Corner_3 -> Stat(15, 40, Tenths(375))
          [] z = Right_Corner_3 -> Stat(18, 45, Tenths(400))
          [] z = Above_the_Break_3 -> Stat(30, 120, Tenths(250))
          [] z = Free_Throws -> Stat(250, 300, Tenths(833))]

\* multi_player_charts.py lines 300-308
multi_generic ==
    [z \in {Restricted_Area, In_The_Paint, Mid_Range, Left_Corner_3, Right_Corner_3, Above_the_Break_3, Free_Throws} |->
        CASE z = Restricted_Area -> Stat(100, 150, Tenths(667))
          [] z = In_The_Paint -> Stat(50, 100, Tenths(500))
          [] z = Mid_Range -> Stat(40, 100, Tenths(400))
          [] z = Left_Corner_3 -> Stat(20, 50, Tenths(400))
          [] z = Right_Corner_3 -> Stat(25, 60, Tenths(417))
          [] z = Above_the_Break_3 -> Stat(60, 180, Tenths(333))
          [] z = Free_Throws -> Stat(120, 150, Tenths(800))]

get_sample_data_no_durant(player_name) ==
    IF Contains(Lower(player_name), pat_curry) THEN demo_curry
    ELSE IF Contains(Lower(player_name), pat_lebron)
            \/ Contains(Lower(player_name), pat_james) THEN demo_lebron
    ELSE demo_generic

\* demo.py lines 150-186
get_sample_data(player_name) ==
    IF Contains(Lower(player_name), pat_curry) THEN demo_curry
    ELSE IF Contains(Lower(player_name), pat_lebron)
            \/ Contains(Lower(player_name), pat_james) THEN demo_lebron
    ELSE IF Contains(Lower(player_name), pat_durant) THEN demo_durant
    ELSE demo_generic

get_enhanced_sample_data_scatter_six_zones(player_name) ==
    IF Contains(Lower(player_name), pat_curry) THEN demo_curry
    ELSE IF Contains(Lower(player_name), pat_lebron)
            \/ Contains(Lower(player_name), pat_james) THEN demo_lebron
    ELSE IF Contains(Lower(player_name), pat_durant) THEN demo_durant
    ELSE demo_generic

\* scatter_charts.py lines 251-301
get_enhanced_sample_data_scatter(player_name) ==
    IF Contains(Lower(player_name), pat_curry) THEN scatter_curry
    ELSE IF Contains(Lower(player_name), pat_lebron)
            \/ Contains(Lower(player_name), pat_james) THEN scatter_lebron
    ELSE IF Contains(Lower(player_name), pat_durant) THEN scatter_durant
    ELSE IF Contains(Lower(player_name), pat_giannis)
            \/ Contains(Lower(player_name), pat_antetokounmpo) THEN scatter_giannis
    ELSE scatter_generic

get_enhanced_sample_data_multi_embiid_first(player_name) ==
    IF Contains(Lower(player_name), pat_curry) THEN multi_curry
    ELSE IF Contains(Lower(player_name), pat_lebron)
            \/ Contains(Lower(player_name), pat_james) THEN multi_lebron
    ELSE IF Contains(Lower(player_name), pat_durant) THEN multi_durant
    ELSE IF Contains(Lower(player_name), pat_embiid) THEN multi_embiid
    ELSE IF Contains(Lower(player_name), pat_giannis)
            \/ Contains(Lower(player_name), pat_antetokounmpo) THEN multi_giannis
    ELSE multi_generic

\* multi_player_charts.py lines 248-308
get_enhanced_sample_data_multi(player_name) ==
    IF Contains(Lower(player_name), pat_curry) THEN multi_curry
    ELSE IF Contains(Lower(player_name), pat_lebron)
            \/ Contains(Lower(player_name), pat_james) THEN multi_lebron
    ELSE IF Contains(Lower(player_name), pat_durant) THEN multi_durant
    ELSE IF Contains(Lower(player_name), pat_giannis)
            \/ Contains(Lower(player_name), pat_antetokounmpo) THEN multi_giannis
    ELSE IF Contains(Lower(player_name), pat_embiid) THEN multi_embiid
    ELSE multi_generic

(***************************************************************************)
(* _calculate_total_stats, in its two copies.  The stats dictionary is a   *)
(* function on its keys; a percentage is an exact fraction.                *)
(***************************************************************************)
zones_3pt == <<Left_Corner_3, Right_Corner_3, Above_the_Break_3>>

zones_2pt_short == <<Restricted_Area, In_The_Paint>>

zones_2pt == <<Restricted_Area, In_The_Paint, Mid_Range>>

\* record.get(key, default)
Get(record, key, default) == IF key \in DOMAIN record THEN record[key] ELSE default

\* for zone in zones: if zone in player_data: total += player_data[zone].get(field, 0)
RECURSIVE zone_loop(_, _, _)
zone_loop(player_data, zones, field) ==
    IF zones = <<>> THEN 0
    ELSE (IF Head(zones) \in DOMAIN player_data
          THEN Get(player_data[Head(zones)], field, 0) ELSE 0)
         + zone_loop(player_data, Tail(zones), field)

\* if 'Free Throws' in player_data: stats['ft_...'] = player_data['Free Throws'].get(field, 0)
free_throws(player_data, field) ==
    IF Free_Throws \in DOMAIN player_data
    THEN Get(player_data[Free_Throws], field, 0) ELSE 0

fg_pct_unguarded(fgm, fga) ==
    IF fga = 0 THEN <<"ZeroDivisionError">> ELSE Float(100 * fgm, fga)

\* if fga > 0: pct = (fgm / fga) * 100; the initial value otherwise
fg_pct(fgm, fga) == IF fga > 0 THEN Float(100 * fgm, fga) ELSE Float(0, 1)

calculate_total_stats_multi_ft_in_total(player_data) ==
    LET fga3 == zone_loop(player_data, zones_3pt, "FGA")
        fgm3 == zone_loop(player_data, zones_3pt, "FGM")
        fga2 == zone_loop(player_data, zones_2pt, "FGA")
        fgm2 == zone_loop(player_data, zones_2pt, "FGM")
        ftfga == free_throws(player_data, "FGA")
        ftfgm == free_throws(player_data, "FGM")
    IN  [key \in {"total_fga", "total_fgm", "total_fg_pct", "3pt_fga", "3pt_fgm",
                  "3pt_fg_pct", "2pt_fga", "2pt_fgm", "2pt_fg_pct", "ft_fga",
                  "ft_fgm", "ft_fg_pct"} |->
            CASE key = "total_fga" -> fga3 + fga2 + ftfga
              [] key = "total_fgm" -> fgm3 + fgm2 + ftfgm
              [] key = "total_fg_pct" -> fg_pct(fgm3 + fgm2 + ftfgm, fga3 + fga2 + ftfga)
              [] key = "3pt_fga" -> fga3
              [] key = "3pt_fgm" -> fgm3
              [] key = "3pt_fg_pct" -> fg_pct(fgm3, fga3)
              [] key = "2pt_fga" -> fga2
              [] key = "2pt_fgm" -> fgm2
              [] key = "2pt_fg_pct" -> fg_pct(fgm2, fga2)
              [] key = "ft_fga" -> ftfga
              [] key = "ft_fgm" -> ftfgm
              [] key = "ft_fg_pct" -> fg_pct(ftfgm, ftfga)]

\* multi_player_charts.py lines 194-244
calculate_total_stats_multi(player_data) ==
    LET fga3 == zone_loop(player_data, zones_3pt, "FGA")
        fgm3 == zone_loop(player_data, zones_3pt, "FGM")
        fga2 == zone_loop(player_data, zones_2pt, "FGA")
        fgm2 == zone_loop(player_data, zones_2pt, "FGM")
        ftfga == free_throws(player_data, "FGA")
        ftfgm == free_throws(player_data, "FGM")
    IN  [key \in {"total_fga", "total_fgm", "total_fg_pct", "3pt_fga", "3pt_fgm",
                  "3pt_fg_pct", "2pt_fga", "2pt_fgm", "2pt_fg_pct", "ft_fga",
                  "ft_fgm", "ft_fg_pct"} |->
            CASE key = "total_fga" -> fga3 + fga2
              [] key = "total_fgm" -> fgm3 + fgm2
              [] key = "total_fg_pct" -> fg_pct(fgm3 + fgm2, fga3 + fga2)
              [] key = "3pt_fga" -> fga3
              [] key = "3pt_fgm" -> fgm3
              [] key = "3pt_fg_pct" -> fg_pct(fgm3, fga3)
              [] key = "2pt_fga" -> fga2
              [] key = "2pt_fgm" -> fgm2
              [] key = "2pt_fg_pct" -> fg_pct(fgm2, fga2)
              [] key = "ft_fga" -> ftfga
              [] key = "ft_fgm" -> ftfgm
              [] key = "ft_fg_pct" -> fg_pct(ftfgm, ftfga)]

\* scatter_charts.py lines 208-247
calculate_total_stats_scatter(player_data) ==
    LET fga3 == zone_loop(player_data, zones_3pt, "FGA")
        fgm3 == zone_loop(player_data, zones_3pt, "FGM")
        fga2 == zone_loop(player_data, zones_2pt, "FGA")
        fgm2 == zone_loop(player_data, zones_2pt, "FGM")
    IN  [key \in {"total_fga", "total_fgm", "total_fg_pct", "3pt_fga", "3pt_fgm",
                  "3pt_fg_pct", "2pt_fga", "2pt_fgm", "2pt_fg_pct"} |->
            CASE key = "total_fga" -> fga3 + fga2
              [] key = "total_fgm" -> fgm3 + fgm2
              [] key = "total_fg_pct" -> fg_pct(fgm3 + fgm2, fga3 + fga2)
              [] key = "3pt_fga" -> fga3
              [] key = "3pt_fgm" -> fgm3
              [] key = "3pt_fg_pct" -> fg_pct(fgm3, fga3)
              [] key = "2pt_fga" -> fga2
              [] key = "2pt_fgm" -> fgm2
              [] key = "2pt_fg_pct" -> fg_pct(fgm2, fga2)]

(***************************************************************************)
(* int() and float() on the text of a cell.  Both return [ok, val];        *)
(* ok = FALSE is ValueError.  The grammar covers the characters of the     *)
(* explored cell texts: sign, digits, one decimal point, nan, inf.         *)
(***************************************************************************)
IsDigits(s) == s # <<>> /\ \A i \in 1..Len(s) : s[i] \in Range(DigitChars)

DigitVal(c) == CHOOSE d \in 0..9 : DigitChars[d + 1] = c

RECURSIVE DigitsToNat(_)
DigitsToNat(s) ==
    IF s = <<>> THEN 0
    ELSE DigitsToNat(SubSeq(s, 1, Len(s) - 1)) * 10 + DigitVal(s[Len(s)])

RECURSIVE Pow10(_)
Pow10(n) == IF n = 0 THEN 1 ELSE 10 * Pow10(n - 1)

HasSign(s) == s # <<>> /\ Head(s) \in {"+", "-"}
Unsigned(s) == IF HasSign(s) THEN Tail(s) ELSE s
SignOf(s) == IF s # <<>> /\ Head(s) = "-" THEN -1 ELSE 1

ValueError == [ok |-> FALSE, val |-> 0]

\* int(text)
ParseInt(text) ==
    LET s == Strip(text)
        body == Unsigned(s)
    IN  IF IsDigits(body)
        THEN [ok |-> TRUE, val |-> SignOf(s) * DigitsToNat(body)]
        ELSE ValueError

DotAt(s) == IF \E i \in 1..Len(s) : s[i] = "."
            THEN CHOOSE i \in 1..Len(s) : s[i] = "." /\ \A j \in 1..(i - 1) : s[j] # "."
            ELSE 0

\* float(text)
ParseFloat(text) ==
    LET s == Strip(text)
        body == Unsigned(s)
        low == Lower(body)
        dot == DotAt(body)
        ip == IF dot = 0 THEN body ELSE SubSeq(body, 1, dot - 1)
        fp == IF dot = 0 THEN <<>> ELSE SubSeq(body, dot + 1, Len(body))
    IN  IF low = <<"n", "a", "n">> THEN [ok |-> TRUE, val |-> NaN]
        ELSE IF low \in {<<"i", "n", "f">>, <<"i", "n", "f", "i", "n", "i", "t", "y">>}
        THEN [ok |-> TRUE, val |-> IF SignOf(s) = 1 THEN Inf ELSE NegInf]
        ELSE IF /\ ip # <<>> \/ fp # <<>>
                /\ ip = <<>> \/ IsDigits(ip)
                /\ fp = <<>> \/ IsDigits(fp)
        THEN [ok |-> TRUE,
              val |-> Float(SignOf(s) * (DigitsToNat(ip) * Pow10(Len(fp)) + DigitsToNat(fp)),
                            Pow10(Len(fp)))]
        ELSE ValueError

(***************************************************************************)
(* _parse_shooting_table.  A table is the sequence of its rows, a row the  *)
(* sequence of the texts of its td/th cells.                               *)
(***************************************************************************)
int_cell_strict(text) == ParseInt(Strip(text))

\* int(cells[i].get_text().strip()) if cells[i].get_text().strip() else 0
int_cell(text) ==
    IF Strip(text) # <<>> THEN ParseInt(Strip(text)) ELSE [ok |-> TRUE, val |-> 0]

\* float(cells[3].get_text().strip().rstrip('%')) if cells[3].get_text().strip() else 0
float_cell(text) ==
    IF Strip(text) # <<>> THEN ParseFloat(RStripPct(Strip(text)))
    ELSE [ok |-> TRUE, val |-> Float(0, 1)]

\* the body of "for row in rows": data after the row is handled.  cells[3]
\* of a three-cell row raises IndexError, which like ValueError skips the row.
parse_row_partial(data, cells) ==
    IF Len(cells) >= 3
    THEN LET zone == Strip(cells[1])
         IN  IF zone # <<>> /\ zone # ZoneHeader
             THEN LET fgm == int_cell(cells[2])
                      fga == int_cell(cells[3])
                      pct == IF Len(cells) >= 4 THEN float_cell(cells[4])
                             ELSE ValueError
                  IN  Put(data, zone, Stat(fgm.val, fga.val, pct.val))
             ELSE data
    ELSE data

parse_row_pct_default(data, cells) ==
    IF Len(cells) >= 3
    THEN LET zone == Strip(cells[1])
         IN  IF zone # <<>> /\ zone # ZoneHeader
             THEN LET fgm == int_cell(cells[2])
                      fga == int_cell(cells[3])
                      pct == IF Len(cells) >= 4 THEN float_cell(cells[4])
                             ELSE [ok |-> TRUE, val |-> Float(0, 1)]
                  IN  IF fgm.ok /\ fga.ok /\ pct.ok
                      THEN Put(data, zone, Stat(fgm.val, fga.val, pct.val))
                      ELSE data
             ELSE data
    ELSE data

parse_row_any_label(data, cells) ==
    IF Len(cells) >= 3
    THEN LET zone == Strip(cells[1])
             fgm == int_cell(cells[2])
             fga == int_cell(cells[3])
             pct == IF Len(cells) >= 4 THEN float_cell(cells[4]) ELSE ValueError
         IN  IF fgm.ok /\ fga.ok /\ pct.ok
             THEN Put(data, zone, Stat(fgm.val, fga.val, pct.val))
             ELSE data
    ELSE data

parse_row_zero_pct(data, cells) ==
    IF Len(cells) >= 3
    THEN LET zone == Strip(cells[1])
         IN  IF zone # <<>> /\ zone # ZoneHeader
             THEN LET fgm == int_cell(cells[2])
                      fga == int_cell(cells[3])
                      pct == IF Len(cells) >= 4 THEN float_cell(cells[4])
                             ELSE ValueError
                  IN  IF fgm.ok /\ fga.ok /\ pct.ok
                      THEN Put(data, zone,
                               Stat(fgm.val, fga.val,
                                    IF fga.val = 0 THEN Float(0, 1) ELSE pct.val))
                      ELSE data
             ELSE data
    ELSE data

parse_row(data, cells) ==
    IF Len(cells) >= 3
    THEN LET zone == Strip(cells[1])
         IN  IF zone # <<>> /\ zone # ZoneHeader
             THEN LET fgm == int_cell(cells[2])
                      fga == int_cell(cells[3])
                      pct == IF Len(cells) >= 4 THEN float_cell(cells[4])
                             ELSE ValueError
                  IN  IF fgm.ok /\ fga.ok /\ pct.ok
                      THEN Put(data, zone, Stat(fgm.val, fga.val, pct.val))
                      ELSE data
             ELSE data
    ELSE data

RECURSIVE parse_rows(_, _)
parse_rows(data, rows) ==
    IF rows = <<>> THEN data
    ELSE parse_rows(parse_row(data, Head(rows)), Tail(rows))

parse_shooting_table(table) == parse_rows(EmptyDict, table)

(***************************************************************************)
(* The explored inputs.                                                    *)
(***************************************************************************)
SeqsUpTo(S, n) == UNION {[1..k -> S] : k \in 0..n}

Kevin_Durant == <<"K", "e", "v", "i", "n", " ", "D", "u", "r", "a", "n", "t">>
KEVIN_DURANT == <<"K", "E", "V", "I", "N", " ", "D", "U", "R", "A", "N", "T">>
Giannis_A == <<"G", "i", "a", "n", "n", "i", "s", " ", "A", ".">>
G_Antetokounmpo == <<"G", ".", " ", "A", "n", "t", "e", "t", "o", "k", "o", "u", "n", "m", "p", "o">>
Joel_Embiid == <<"J", "o", "e", "l", " ", "E", "m", "b", "i", "i", "d">>
JOEL_EMBIID == <<"J", "O", "E", "L", " ", "E", "M", "B", "I", "I", "D">>
Nikola_Jokic == <<"N", "i", "k", "o", "l", "a", " ", "J", "o", "k", "i", "c">>
LeBron == <<"L", "e", "B", "r", "o", "n">>
Mike_James == <<"M", "i", "k", "e", " ", "J", "a", "m", "e", "s">>
STEPHEN_CURRY == <<"S", "T", "E", "P", "H", "E", "N", " ", "C", "U", "R", "R", "Y">>
Curry_James == <<"C", "u", "r", "r", "y", " ", "J", "a", "m", "e", "s">>
James_Curry == <<"J", "a", "m", "e", "s", " ", "C", "u", "r", "r", "y">>
Durant_Embiid == <<"D", "u", "r", "a", "n", "t", " ", "E", "m", "b", "i", "i", "d">>
Embiid_Giannis == <<"E", "m", "b", "i", "i", "d", " ", "G", "i", "a", "n", "n", "i", "s">>
Bench == <<"B", "e", "n", "c", "h">>

Kevin_Durant_Jr == <<"K", "e", "v", "i", "n", " ", "D", "u", "r", "a", "n", "t", " ", "J", "r", ".">>
giannis_query == <<"g", "i", "a", "n", "n", "i", "s">>
Luka_Doncic == <<"L", "u", "k", "a", " ", "D", "o", "n", "c", "i", "c">>
Jameson == <<"J", "a", "m", "e", "s", "o", "n">>

\* names handed to the sample generators
SampleNames ==
    {LeBron_James, Stephen_Curry, curry_query, zzzznotaplayer, EmptyStr,
     Kevin_Durant, KEVIN_DURANT, Giannis_A, G_Antetokounmpo, Joel_Embiid,
     JOEL_EMBIID, Nikola_Jokic, LeBron, Mike_James, STEPHEN_CURRY, Curry_James,
     James_Curry, Durant_Embiid, Embiid_Giannis, Bench, Kevin_Durant_Jr,
     giannis_query, Luka_Doncic, Jameson}

\* the keys of the profiles handed to _calculate_total_stats: the seven
\* zones and a label outside them
StatsKeys ==
    {Restricted_Area, In_The_Paint, Mid_Range, Left_Corner_3, Right_Corner_3,
     Above_the_Break_3, Free_Throws, Bench}

\* their records; one lacks FGA, one lacks FGM
StatsRecords ==
    {Stat(5, 10, Float(50, 1)), Stat(3, 4, Float(75, 1)), Stat(0, 0, Float(0, 1)),
     [FGM |-> 2], [FGA |-> 7, FGpct |-> Float(0, 1)]}

\* profiles of at most MaxZones keys, bare or annotated as the scraper
\* annotates them, and some of the full sample profiles
StatsProfiles ==
    LET bare == UNION {[K -> StatsRecords] :
                          K \in {S \in SUBSET StatsKeys : Cardinality(S) <= MaxZones}}
    IN  bare
        \cup {Put(Put(d, KEY_player_name, Stephen_Curry), KEY_season, Season2024) :
                 d \in bare}
        \cup {multi_curry, multi_embiid, demo_durant, create_sample_data(LeBron_James)}

\* the names of a sequence of sample generator calls
CallNames == {Stephen_Curry, KEVIN_DURANT, Bench}

\* the profiles of a sequence of _calculate_total_stats calls
CallProfiles ==
    {EmptyDict, multi_curry, demo_durant,
     Put(EmptyDict, Mid_Range, Stat(3, 4, Float(75, 1)))}

Names == {LeBron_James, Stephen_Curry, curry_query, zzzznotaplayer, EmptyStr}
Seasons == {Season2024, Season2023}

SearchLinks ==
    {[text |-> Stephen_Curry, href |-> href_curryst01],
     [text |-> Seth_Curry, href |-> href_curryse01],
     [text |-> LEBRON_JAMES, href |-> href_jamesle01],
     [text |-> LeBron_James, href |-> href_team]}

Responses == {ErrorResponse} \cup {OkResponse(l) : l \in SeqsUpTo(SearchLinks, MaxLinks)}

PageLinks ==
    {[text |-> Shooting_text, href |-> href_shooting_2024],
     [text |-> Advanced_text, href |-> href_shooting_2023],
     [text |-> Shooting_text, href |-> href_splits_2024]}

MadeTexts == {<<"5">>, <<>>, <<"x">>, <<"-", "3">>, <<" ", "7", " ">>}
AttTexts == {<<"1", "0">>, <<>>, <<"x">>, <<"0">>}
PctTexts == {<<"5", "0", ".", "0", "%">>, <<>>, <<"x">>, <<"%">>,
             <<"3", "7", ".", "5">>, <<"n", "a", "n">>}

GoodRow(label) == <<label, <<"5">>, <<"1", "0">>, <<"5", "0", ".", "0", "%">>>>
ShortRow == <<Mid_Range, <<"5">>, <<"1", "0">>>>
BadAttRow == <<Mid_Range, <<"5">>, <<"x">>, <<"5", "0", ".", "0", "%">>>>
HeaderRow == <<ZoneHeader, <<"F", "G", "M">>, <<"F", "G", "A">>, <<"F", "G", "%">>>>
PaddedRA == <<" ">> \o Restricted_Area \o <<"\n">>

\* rows that differ from a well-formed row in one cell
FullRows(label) ==
    {<<label, m, <<"1", "0">>, <<"5", "0", ".", "0", "%">>>> : m \in MadeTexts}
    \cup {<<label, <<"5">>, a, <<"5", "0", ".", "0", "%">>>> : a \in AttTexts}
    \cup {<<label, <<"5">>, <<"1", "0">>, p>> : p \in PctTexts}

Rows ==
    FullRows(Mid_Range) \cup FullRows(PaddedRA)
    \cup {<<>>, <<Mid_Range>>, <<Mid_Range, <<"5">>>>, ShortRow,
          <<PaddedRA, <<"x">>, <<"1", "0">>>>,
          HeaderRow, GoodRow(ZoneHeader), GoodRow(EmptyStr), GoodRow(<<" ">>),
          GoodRow(Mid_Range) \o <<<<"9">>>>}

MoreMadeRow == <<Mid_Range, <<"7">>, <<"0">>, <<>>>>
OtherPctRow == <<Mid_Range, <<"5">>, <<"1", "0">>, <<"3", "7", ".", "5">>>>
NegativeRow == <<Mid_Range, <<"-", "3">>, <<"1", "0">>, <<"5", "0", ".", "0", "%">>>>

PageRows ==
    {GoodRow(PaddedRA), BadAttRow, HeaderRow, MoreMadeRow, OtherPctRow, NegativeRow}

Tables == SeqsUpTo(Rows, MaxRows)

\* soup.find('table', {'id': 'shooting'}): the table, or None
NoTable == [present |-> FALSE, rows |-> <<>>]
TableOf(rows) == [present |-> TRUE, rows |-> rows]
PageTables == {NoTable} \cup {TableOf(t) : t \in SeqsUpTo(PageRows, MaxPageRows)}

\* a fetched document: an error, or its shooting table and its links
ErrorPage == [ok |-> FALSE, table |-> NoTable, links |-> <<>>]
Pages ==
    {ErrorPage} \cup
    {[ok |-> TRUE, table |-> t, links |-> l] :
        t \in PageTables, l \in SeqsUpTo(PageLinks, MaxSeasonLinks)}
SubPages ==
    {ErrorPage} \cup {[ok |-> TRUE, table |-> t, links |-> <<>>] : t \in PageTables}

(***************************************************************************)
(* State.  pc is the position inside get_player_shooting_data (or, for the *)
(* specifications of one function, before/after that function).           *)
(***************************************************************************)
VARIABLES
    pc,             \* position of the call
    player_name,    \* argument
    season,         \* argument
    response,       \* search_player: the search response, while in scope
    player_url,     \* search_player's return value
    soup,           \* the parsed player page
    shooting_url,   \* the sub-page chosen by the season-link loop
    shooting_soup,  \* the parsed sub-page
    shooting_table, \* the table handed to _parse_shooting_table
    result,         \* what the call returned
    requests,       \* the session.get calls made so far and their outcomes
    sample_calls,   \* number of _create_sample_data invocations
    callee,         \* which file's copy of a duplicated function is called
    player_data,    \* argument of _calculate_total_stats
    calls           \* the completed calls of a sequence of calls: what was
                    \* called, the argument and the value returned

vars == <<pc, player_name, season, response, player_url, soup, shooting_url,
          shooting_soup, shooting_table, result, requests, sample_calls,
          callee, player_data, calls>>

NoResult == [kind |-> "pending", value |-> EmptyDict]
NoneResult == [kind |-> "None", value |-> EmptyDict]
DictResult(d) == [kind |-> "dict", value |-> d]

Idle(p) ==
    /\ pc = p
    /\ player_name = EmptyStr
    /\ season = Season2024
    /\ response = ErrorResponse
    /\ player_url = None
    /\ soup = ErrorPage
    /\ shooting_url = None
    /\ shooting_soup = ErrorPage
    /\ shooting_table = NoTable
    /\ result = NoResult
    /\ requests = <<>>
    /\ sample_calls = 0
    /\ callee = "webScraper"
    /\ player_data = EmptyDict
    /\ calls = <<>>

Init == Idle("idle")

\* one session.get call: what was requested and whether it returned
Request(what, ok) == [url |-> what, ok |-> ok]

\* "if not player_url"
IsFalsy(s) == s = None \/ s = <<>>

season_links_by_text(links, s) ==
    SelectSeq(links, LAMBDA l : MatchesSeasonHref(l.href, s)
                                    /\ Contains(Lower(l.text), pat_shooting))

\* for link in season_links: if 'shooting' in link.get('href', ''): ... break
season_links(links, s) == SelectSeq(links, LAMBDA l : MatchesSeasonHref(l.href, s))

RECURSIVE first_shooting_link(_)
first_shooting_link(links) ==
    IF links = <<>> THEN None
    ELSE IF Contains(Head(links).href, pat_shooting) THEN Head(links).href
    ELSE first_shooting_link(Tail(links))

extract_or_sample(table, name, s) ==
    IF parse_shooting_table(table.rows) = EmptyDict
    THEN create_sample_data(name)
    ELSE Put(Put(parse_shooting_table(table.rows), KEY_player_name, name), KEY_season, s)

\* round(100 * m / a, 1) in tenths, for a > 0: the nearest tenth, a tie going
\* to the even one
Round1(m, a) ==
    LET q == (1000 * m) \div a
        r == (1000 * m) % a
    IN  IF 2 * r < a THEN q
        ELSE IF 2 * r > a THEN q + 1
        ELSE IF q % 2 = 0 THEN q ELSE q + 1

extract_recomputed(table, name, s) ==
    LET d == parse_shooting_table(table.rows)
        fix(r) == IF r.FGA > 0 THEN Stat(r.FGM, r.FGA, Tenths(Round1(r.FGM, r.FGA)))
                  ELSE r
    IN  Put(Put([k \in DOMAIN d |-> fix(d[k])], KEY_player_name, name), KEY_season, s)

extract_clamped(table, name, s) ==
    LET d == parse_shooting_table(table.rows)
        fga(r) == IF r.FGA < 0 THEN 0 ELSE r.FGA
        fgm(r) == IF r.FGM < 0 THEN 0 ELSE IF r.FGM > fga(r) THEN fga(r) ELSE r.FGM
        fix(r) == Stat(fgm(r), fga(r), r.FGpct)
    IN  Put(Put([k \in DOMAIN d |-> fix(d[k])], KEY_player_name, name), KEY_season, s)

extract_unannotated(table, name, s) == parse_shooting_table(table.rows)

\* lines 83-87: parse, then annotate with the arguments
extract(table, name, s) ==
    Put(Put(parse_shooting_table(table.rows), KEY_player_name, name), KEY_season, s)

\* line 45: the search request and the scan of its links
Search(name, s, resp) ==
    /\ UNCHANGED <<callee, player_data, calls>>
    /\ pc = "idle"
    /\ player_name' = name
    /\ season' = s
    /\ response' = resp
    /\ player_url' = search_player(name, resp)
    /\ requests' = Append(requests, Request("search", resp.ok))
    /\ pc' = "searched"
    /\ UNCHANGED <<soup, shooting_url, shooting_soup, shooting_table, result,
                   sample_calls>>

not_found_sample(name) == DictResult(create_sample_data(name))

not_found_result(name) == NoneResult

\* lines 46-48; search_player's response is out of scope from here on
NotFound ==
    /\ UNCHANGED <<callee, player_data, calls>>
    /\ pc = "searched"
    /\ IsFalsy(player_url)
    /\ result' = not_found_result(player_name)
    /\ pc' = "done"
    /\ response' = ErrorResponse
    /\ UNCHANGED <<player_name, season, player_url, soup, shooting_url,
                   shooting_soup, shooting_table, requests, sample_calls>>

\* lines 46 and 50: the identifier is usable; search_player's response is out
\* of scope from here on
Found ==
    /\ UNCHANGED <<callee, player_data, calls>>
    /\ pc = "searched"
    /\ ~IsFalsy(player_url)
    /\ pc' = "located"
    /\ response' = ErrorResponse
    /\ UNCHANGED <<player_name, season, player_url, soup, shooting_url,
                   shooting_soup, shooting_table, result, requests, sample_calls>>

except_none(name) == NoneResult

sample_result_wrong_name(name) == DictResult(create_sample_data(EmptyStr))

\* lines 80 and 92: return self._create_sample_data(player_name)
sample_result(name) == DictResult(create_sample_data(name))

\* lines 78-80 and 89-92: the sample generator supplies the return value
Fallback ==
    /\ result' = sample_result(player_name)
    /\ sample_calls' = sample_calls + 1
    /\ pc' = "done"

\* lines 72-87 once shooting_table is settled; the second look at the main
\* page (line 75) finds what the first look found
Finish(table) ==
    /\ shooting_table' = table
    /\ IF ~table.present /\ ~soup'.table.present
       THEN Fallback
       ELSE /\ result' = DictResult(extract(IF table.present THEN table ELSE soup'.table,
                                            player_name, season))
            /\ pc' = "done"
            /\ UNCHANGED sample_calls

\* lines 53-61: the player page request, up to the request of a sub-page
FetchPage(page) ==
    /\ UNCHANGED <<callee, player_data, calls>>
    /\ pc = "located"
    /\ requests' = Append(requests, Request("page", page.ok))
    /\ soup' = page
    /\ UNCHANGED <<player_name, season, response, player_url, shooting_soup>>
    /\ IF ~page.ok
       THEN Fallback /\ UNCHANGED <<shooting_url, shooting_table>>
       ELSE IF page.table.present
       THEN Finish(page.table) /\ UNCHANGED shooting_url
       ELSE LET url == first_shooting_link(season_links(page.links, season))
            IN  IF url # None
                THEN /\ shooting_url' = url
                     /\ pc' = "subpage"
                     /\ UNCHANGED <<shooting_table, result, sample_calls>>
                ELSE Finish(NoTable) /\ UNCHANGED shooting_url

\* lines 66-69: the sub-page request, then lines 72-87
FetchSubPage(page) ==
    /\ UNCHANGED <<callee, player_data, calls>>
    /\ pc = "subpage"
    /\ requests' = Append(requests, Request("subpage", page.ok))
    /\ shooting_soup' = page
    /\ UNCHANGED <<player_name, season, response, player_url, soup, shooting_url>>
    /\ IF ~page.ok
       THEN Fallback /\ UNCHANGED shooting_table
       ELSE Finish(page.table)

\* the caller takes the value; the scraper keeps nothing of the call
Return ==
    /\ pc = "done"
    /\ pc' = "idle"
    /\ player_name' = EmptyStr
    /\ season' = Season2024
    /\ response' = ErrorResponse
    /\ player_url' = None
    /\ soup' = ErrorPage
    /\ shooting_url' = None
    /\ shooting_soup' = ErrorPage
    /\ shooting_table' = NoTable
    /\ result' = NoResult
    /\ requests' = <<>>
    /\ sample_calls' = 0
    /\ UNCHANGED <<callee, player_data, calls>>

Next ==
    \/ \E name \in Names, s \in Seasons, resp \in Responses : Search(name, s, resp)
    \/ NotFound
    \/ Found
    \/ \E page \in Pages : FetchPage(page)
    \/ \E page \in SubPages : FetchSubPage(page)
    \/ Return

Spec == Init /\ [][Next]_vars

(***************************************************************************)
(* _parse_shooting_table on its own: the table is drawn from Tables and    *)
(* the function is applied to it.                                          *)
(***************************************************************************)
InitParse ==
    /\ pc = "parse_ready"
    /\ player_name = EmptyStr
    /\ season = Season2024
    /\ response = ErrorResponse
    /\ player_url = None
    /\ soup = ErrorPage
    /\ shooting_url = None
    /\ shooting_soup = ErrorPage
    /\ shooting_table \in {TableOf(t) : t \in Tables}
    /\ result = NoResult
    /\ requests = <<>>
    /\ sample_calls = 0
    /\ callee = "webScraper"
    /\ player_data = EmptyDict
    /\ calls = <<>>

ParseTable ==
    /\ UNCHANGED <<callee, player_data, calls>>
    /\ pc = "parse_ready"
    /\ result' = DictResult(parse_shooting_table(shooting_table.rows))
    /\ pc' = "parsed"
    /\ UNCHANGED <<player_name, season, response, player_url, soup, shooting_url,
                   shooting_soup, shooting_table, requests, sample_calls>>

NextParse == ParseTable

SpecParse == InitParse /\ [][NextParse]_vars

(***************************************************************************)
(* The sample generators on their own: the name is drawn from SampleNames  *)
(* and one of the four generators is applied to it.                        *)
(***************************************************************************)
InitSample ==
    /\ pc = "sample_ready"
    /\ player_name \in SampleNames
    /\ season = Season2024
    /\ response = ErrorResponse
    /\ player_url = None
    /\ soup = ErrorPage
    /\ shooting_url = None
    /\ shooting_soup = ErrorPage
    /\ shooting_table = NoTable
    /\ result = NoResult
    /\ requests = <<>>
    /\ sample_calls = 0
    /\ callee = "none"
    /\ player_data = EmptyDict
    /\ calls = <<>>

\* what a call of a sample generator leaves alone
SampleFrame ==
    UNCHANGED <<player_name, season, response, player_url, soup, shooting_url,
                shooting_soup, shooting_table, requests, sample_calls,
                player_data, calls>>

\* webScraper.py: _create_sample_data(player_name)
CreateSampleData ==
    /\ pc = "sample_ready"
    /\ callee' = "webScraper"
    /\ result' = DictResult(create_sample_data(player_name))
    /\ pc' = "generated"
    /\ SampleFrame

\* demo.py: get_sample_data(player_name)
GetSampleData ==
    /\ pc = "sample_ready"
    /\ callee' = "demo"
    /\ result' = DictResult(get_sample_data(player_name))
    /\ pc' = "generated"
    /\ SampleFrame

\* scatter_charts.py: get_enhanced_sample_data(player_name)
GetEnhancedSampleDataScatter ==
    /\ pc = "sample_ready"
    /\ callee' = "scatter_charts"
    /\ result' = DictResult(get_enhanced_sample_data_scatter(player_name))
    /\ pc' = "generated"
    /\ SampleFrame

\* multi_player_charts.py: get_enhanced_sample_data(player_name)
GetEnhancedSampleDataMulti ==
    /\ pc = "sample_ready"
    /\ callee' = "multi_player_charts"
    /\ result' = DictResult(get_enhanced_sample_data_multi(player_name))
    /\ pc' = "generated"
    /\ SampleFrame

NextSample ==
    \/ CreateSampleData
    \/ GetSampleData
    \/ GetEnhancedSampleDataScatter
    \/ GetEnhancedSampleDataMulti

SpecSample == InitSample /\ [][NextSample]_vars

(***************************************************************************)
(* _calculate_total_stats on its own: the profile is drawn from            *)
(* StatsProfiles and one of the two copies is applied to it.               *)
(***************************************************************************)
InitStats ==
    /\ pc = "stats_ready"
    /\ player_name = EmptyStr
    /\ season = Season2024
    /\ response = ErrorResponse
    /\ player_url = None
    /\ soup = ErrorPage
    /\ shooting_url = None
    /\ shooting_soup = ErrorPage
    /\ shooting_table = NoTable
    /\ result = NoResult
    /\ requests = <<>>
    /\ sample_calls = 0
    /\ callee = "none"
    /\ player_data \in StatsProfiles
    /\ calls = <<>>

\* what a call of _calculate_total_stats leaves alone
StatsFrame ==
    UNCHANGED <<player_name, season, response, player_url, soup, shooting_url,
                shooting_soup, shooting_table, requests, sample_calls,
                player_data, calls>>

\* scatter_charts.py: self._calculate_total_stats(player_data)
CalculateTotalStatsScatter ==
    /\ pc = "stats_ready"
    /\ callee' = "scatter_charts"
    /\ result' = DictResult(calculate_total_stats_scatter(player_data))
    /\ pc' = "calculated"
    /\ StatsFrame

\* multi_player_charts.py: self._calculate_total_stats(player_data)
CalculateTotalStatsMulti ==
    /\ pc = "stats_ready"
    /\ callee' = "multi_player_charts"
    /\ result' = DictResult(calculate_total_stats_multi(player_data))
    /\ pc' = "calculated"
    /\ StatsFrame

NextStats ==
    \/ CalculateTotalStatsScatter
    \/ CalculateTotalStatsMulti

SpecStats == InitStats /\ [][NextStats]_vars

(***************************************************************************)
(* Sequences of _calculate_total_stats calls by one caller, on profiles    *)
(* drawn from CallProfiles; calls records each completed call.             *)
(***************************************************************************)
InitCalls ==
    /\ pc = "caller"
    /\ player_name = EmptyStr
    /\ season = Season2024
    /\ response = ErrorResponse
    /\ player_url = None
    /\ soup = ErrorPage
    /\ shooting_url = None
    /\ shooting_soup = ErrorPage
    /\ shooting_table = NoTable
    /\ result = NoResult
    /\ requests = <<>>
    /\ sample_calls = 0
    /\ callee = "none"
    /\ player_data = EmptyDict
    /\ calls = <<>>

Call(fn, arg, ret) == [fn |-> fn, arg |-> arg, ret |-> ret]

COUNT_KEYS ==
    {"total_fga", "total_fgm", "3pt_fga", "3pt_fgm", "2pt_fga", "2pt_fgm",
     "ft_fga", "ft_fgm"}

stats_returned_multi_accumulating(profile) ==
    LET fresh == calculate_total_stats_multi(profile)
    IN  IF result.kind = "dict" /\ DOMAIN result.value = DOMAIN fresh
        THEN [key \in DOMAIN fresh |->
                 IF key \in COUNT_KEYS THEN result.value[key] + fresh[key]
                 ELSE fresh[key]]
        ELSE fresh

\* multi_player_charts.py lines 196-209 and 244: stats is a new dictionary
\* in every call, and it is what the call returns
stats_returned_multi(profile) == calculate_total_stats_multi(profile)

\* scatter_charts.py lines 210-220 and 247
stats_returned_scatter(profile) == calculate_total_stats_scatter(profile)

\* the function reads player_data (in, [], .get) and stores nothing into it
profile_after_call(profile) == profile

\* what a call in a sequence of calls leaves alone
CallFrame ==
    UNCHANGED <<pc, player_name, season, response, player_url, soup, shooting_url,
                shooting_soup, shooting_table, requests, sample_calls>>

\* multi_player_charts.py: self._calculate_total_stats(profile)
CallTotalStatsMulti(profile) ==
    /\ pc = "caller"
    /\ Len(calls) < MaxCalls
    /\ callee' = "multi_player_charts"
    /\ result' = DictResult(stats_returned_multi(profile))
    /\ player_data' = profile_after_call(profile)
    /\ calls' = Append(calls, Call("multi_player_charts", profile,
                                   stats_returned_multi(profile)))
    /\ CallFrame

\* scatter_charts.py: self._calculate_total_stats(profile)
CallTotalStatsScatter(profile) ==
    /\ pc = "caller"
    /\ Len(calls) < MaxCalls
    /\ callee' = "scatter_charts"
    /\ result' = DictResult(stats_returned_scatter(profile))
    /\ player_data' = profile_after_call(profile)
    /\ calls' = Append(calls, Call("scatter_charts", profile,
                                   stats_returned_scatter(profile)))
    /\ CallFrame

NextStatsCalls ==
    \/ \E profile \in CallProfiles : CallTotalStatsMulti(profile)
    \/ \E profile \in CallProfiles : CallTotalStatsScatter(profile)

SpecStatsCalls == InitCalls /\ [][NextStatsCalls]_vars

(***************************************************************************)
(* Sequences of sample generator calls by one caller, on names drawn from  *)
(* CallNames.  The caller holds the profile returned last (result) and may *)
(* write into it between calls.                                            *)
(***************************************************************************)
sample_returned_multi_shared(name) ==
    IF result.kind = "dict" /\ callee = "multi_player_charts" /\ player_name = name
    THEN result.value
    ELSE get_enhanced_sample_data_multi(name)

\* multi_player_charts.py lines 249-308: each return statement builds its
\* dictionary, and the dictionaries inside it, anew
sample_returned_multi(name) == get_enhanced_sample_data_multi(name)

\* scatter_charts.py lines 252-301
sample_returned_scatter(name) == get_enhanced_sample_data_scatter(name)

\* demo.py lines 151-186
sample_returned_demo(name) == get_sample_data(name)

\* webScraper.py lines 128-158: data is built anew and returned
sample_returned_webScraper(name) == create_sample_data(name)

\* what a sample generator call leaves alone
SampleCallFrame ==
    UNCHANGED <<pc, season, response, player_url, soup, shooting_url,
                shooting_soup, shooting_table, requests, sample_calls,
                player_data>>

\* webScraper.py: self._create_sample_data(name)
CallCreateSampleData(name) ==
    /\ pc = "caller"
    /\ Len(calls) < MaxCalls
    /\ callee' = "webScraper"
    /\ player_name' = name
    /\ result' = DictResult(sample_returned_webScraper(name))
    /\ calls' = Append(calls, Call("webScraper", name, sample_returned_webScraper(name)))
    /\ SampleCallFrame

\* demo.py: get_sample_data(name)
CallGetSampleData(name) ==
    /\ pc = "caller"
    /\ Len(calls) < MaxCalls
    /\ callee' = "demo"
    /\ player_name' = name
    /\ result' = DictResult(sample_returned_demo(name))
    /\ calls' = Append(calls, Call("demo", name, sample_returned_demo(name)))
    /\ SampleCallFrame

\* scatter_charts.py: get_enhanced_sample_data(name)
CallGetEnhancedSampleDataScatter(name) ==
    /\ pc = "caller"
    /\ Len(calls) < MaxCalls
    /\ callee' = "scatter_charts"
    /\ player_name' = name
    /\ result' = DictResult(sample_returned_scatter(name))
    /\ calls' = Append(calls, Call("scatter_charts", name, sample_returned_scatter(name)))
    /\ SampleCallFrame

\* multi_player_charts.py: get_enhanced_sample_data(name)
CallGetEnhancedSampleDataMulti(name) ==
    /\ pc = "caller"
    /\ Len(calls) < MaxCalls
    /\ callee' = "multi_player_charts"
    /\ player_name' = name
    /\ result' = DictResult(sample_returned_multi(name))
    /\ calls' = Append(calls, Call("multi_player_charts", name,
                                   sample_returned_multi(name)))
    /\ SampleCallFrame

\* the caller overwrites a record of the profile it holds
MutateReturned ==
    /\ pc = "caller"
    /\ Len(calls) < MaxCalls
    /\ result.kind = "dict"
    /\ Restricted_Area \in DOMAIN result.value
    /\ result.value[Restricted_Area] # Stat(0, 0, Float(0, 1))
    /\ result' = DictResult(Put(result.value, Restricted_Area, Stat(0, 0, Float(0, 1))))
    /\ calls' = Append(calls, Call("caller", Restricted_Area, result'.value))
    /\ UNCHANGED <<callee, player_name>>
    /\ SampleCallFrame

NextSampleCalls ==
    \/ \E name \in CallNames : CallCreateSampleData(name)
    \/ \E name \in CallNames : CallGetSampleData(name)
    \/ \E name \in CallNames : CallGetEnhancedSampleDataScatter(name)
    \/ \E name \in CallNames : CallGetEnhancedSampleDataMulti(name)
    \/ MutateReturned

SpecSampleCalls == InitCalls /\ [][NextSampleCalls]_vars

(***************************************************************************)
(* Every way a profile comes into being: a table is parsed or a sample is  *)
(* generated.                                                              *)
(***************************************************************************)
InitProfiles == InitParse \/ InitSample

NextProfiles ==
    \/ ParseTable
    \/ CreateSampleData
    \/ GetSampleData
    \/ GetEnhancedSampleDataScatter
    \/ GetEnhancedSampleDataMulti

SpecProfiles == InitProfiles /\ [][NextProfiles]_vars

(***************************************************************************)
(* Properties of get_player_shooting_data (specification Spec).            *)
(***************************************************************************)
Returned == pc = "done"
Located == ~IsFalsy(player_url)
PageFailed == Len(requests) = 2 /\ ~requests[2].ok
SubPageFailed == Len(requests) = 3 /\ ~requests[3].ok
IsProfile(r) ==
    /\ r.kind = "dict"
    /\ \A k \in DOMAIN r.value \ {KEY_player_name, KEY_season} :
           DOMAIN r.value[k] = {"FGM", "FGA", "FGpct"}

\* C1 as stated: whatever the name, the season and the outcomes of the search,
\* of the page fetch and of the table lookup, the call returns a profile,
\* never None.
C1_Original == Returned => IsProfile(result)

\* C1 amended: the call returns None when search_player yields no identifier
\* and a zone->stats mapping in every other outcome of the environment.
C1_Amended ==
    Returned => IF Located THEN IsProfile(result) ELSE result = NoneResult

C1_Witness == Returned /\ Located /\ PageFailed /\ IsProfile(result)

\* C2 as stated: when search_player yields no identifier the sample generator
\* is invoked and its profile is what the call returns.
C2_Original ==
    (Returned /\ ~Located) =>
        /\ sample_calls = 1
        /\ result = DictResult(create_sample_data(player_name))

\* C2 amended: when search_player yields no identifier the call returns None;
\* the sample generator is not invoked and no further request is made.
C2_Amended ==
    (Returned /\ ~Located) =>
        /\ result = NoneResult
        /\ sample_calls = 0
        /\ Len(requests) = 1 /\ requests[1].url = "search"

C2_Witness ==
    /\ Returned
    /\ requests[1].ok
    /\ player_name = zzzznotaplayer
    /\ player_url = None
    /\ result = NoneResult

LeBronProfile ==
    [z \in {Restricted_Area, In_The_Paint, Mid_Range, Left_Corner_3,
            Right_Corner_3, Above_the_Break_3, KEY_player_name, KEY_season} |->
        CASE z = Restricted_Area -> [FGM |-> 180, FGA |-> 250, FGpct |-> Float(72, 1)]
          [] z = In_The_Paint -> [FGM |-> 80, FGA |-> 150, FGpct |-> Float(533, 10)]
          [] z = Mid_Range -> [FGM |-> 60, FGA |-> 120, FGpct |-> Float(50, 1)]
          [] z = Left_Corner_3 -> [FGM |-> 25, FGA |-> 60, FGpct |-> Float(417, 10)]
          [] z = Right_Corner_3 -> [FGM |-> 30, FGA |-> 70, FGpct |-> Float(429, 10)]
          [] z = Above_the_Break_3 -> [FGM |-> 45, FGA |-> 150, FGpct |-> Float(30, 1)]
          [] z = KEY_player_name -> LeBron_James
          [] z = KEY_season -> Season2024]

IsLeBron2024 == player_name = LeBron_James /\ season = Season2024

\* every request made by the call failed
AllRequestsFailed == \A i \in 1..Len(requests) : ~requests[i].ok

\* C3 as stated: when every request fails, the call for ("LeBron James",
\* "2024") returns the constant LeBron fallback profile.
C3_Original ==
    (Returned /\ IsLeBron2024 /\ AllRequestsFailed) => result = DictResult(LeBronProfile)

\* C3 amended: when every request fails, the call for ("LeBron James", "2024")
\* returns None without raising; it returns the constant LeBron fallback
\* profile when the search locates the player and the player-page request
\* then fails.
C3_Amended ==
    /\ (Returned /\ IsLeBron2024 /\ AllRequestsFailed) => result = NoneResult
    /\ (Returned /\ IsLeBron2024 /\ Located /\ PageFailed) =>
           result = DictResult(LeBronProfile)

C3_Witness ==
    Returned /\ IsLeBron2024 /\ Located /\ PageFailed /\ result = DictResult(LeBronProfile)

\* C4: when the player was located and the request (or parsing) of the player
\* page or of the shooting sub-page raises, the call returns the sample
\* generator's profile for the requested name.
C4_FetchErrorFallsBack ==
    (Returned /\ Located /\ (PageFailed \/ SubPageFailed)) =>
        /\ result = DictResult(create_sample_data(player_name))
        /\ sample_calls = 1

C4_Witness ==
    /\ Returned
    /\ Located
    /\ SubPageFailed
    /\ soup.ok
    /\ player_name = Stephen_Curry
    /\ result.kind = "dict"
    /\ result.value[Restricted_Area].FGM = 45

ExtractionEmpty ==
    shooting_table.present /\ parse_shooting_table(shooting_table.rows) = EmptyDict

\* C5 as stated: when a shooting table is found but extraction yields no zone
\* record, the call returns the sample generator's profile.
C5_Original ==
    (Returned /\ ExtractionEmpty) => result = DictResult(create_sample_data(player_name))

\* C5 amended: when a shooting table is found but extraction yields no zone
\* record, the call returns a profile without any zone record (only
\* player_name and season); the sample generator is not invoked.
C5_Amended ==
    (Returned /\ ExtractionEmpty) =>
        /\ result.kind = "dict"
        /\ DOMAIN result.value = {KEY_player_name, KEY_season}
        /\ sample_calls = 0

C5_Witness ==
    /\ Returned
    /\ shooting_table = TableOf(<<BadAttRow>>)
    /\ DOMAIN result.value = {KEY_player_name, KEY_season}

\* C6: every profile the call returns, extracted or generated, carries the
\* requested player_name and the requested season.
C6_Claim ==
    (Returned /\ result.kind = "dict") =>
        /\ result.value[KEY_player_name] = player_name
        /\ result.value[KEY_season] = season

(***************************************************************************)
(* Properties of search_player (specification Spec, as it returns).        *)
(***************************************************************************)
Searched == pc = "searched"
Candidates == player_links(response.links)
CandidateMatches(i) ==
    Contains(Lower(Candidates[i].text), Lower(player_name))

\* C7: search_player returns the identifier of the first candidate, in
\* document order, whose display name contains the query as a
\* case-insensitive substring; a later matching candidate never wins.
C7_FirstMatchWins ==
    (Searched /\ response.ok) =>
        \A i \in 1..Len(Candidates) :
            (CandidateMatches(i) /\ \A j \in 1..(i - 1) : ~CandidateMatches(j))
                => player_url = Candidates[i].href

C7_Witness ==
    /\ pc = "searched"
    /\ player_name = curry_query
    /\ Len(Candidates) = 2
    /\ CandidateMatches(1) /\ CandidateMatches(2)
    /\ Candidates[1].href # Candidates[2].href
    /\ player_url = Candidates[1].href

Raised == <<"raise">>

\* C8: search_player yields None exactly when the search request errors or
\* no candidate's display name contains the query; it never raises.
C8_NotFoundIff ==
    Searched =>
        /\ player_url # Raised
        /\ player_url = None <=>
              (~response.ok \/ \A i \in 1..Len(Candidates) : ~CandidateMatches(i))

C8_Witness ==
    /\ pc = "searched"
    /\ player_name = zzzznotaplayer
    /\ response.ok
    /\ Len(Candidates) = 2
    /\ player_url = None

(***************************************************************************)
(* Properties of _parse_shooting_table (specification SpecParse).          *)
(***************************************************************************)
Parsed == pc = "parsed"
TheRows == shooting_table.rows
Data == result.value
RowIds == 1..Len(TheRows)

\* the row has a label that is neither empty nor the header token
Labelled(i) ==
    /\ Len(TheRows[i]) >= 1
    /\ Strip(TheRows[i][1]) # <<>>
    /\ Strip(TheRows[i][1]) # ZoneHeader
ZoneOf(i) == Strip(TheRows[i][1])

\* the cell exists and holds text that int() resp. float() rejects
BadInt(i, c) ==
    /\ Len(TheRows[i]) >= c
    /\ Strip(TheRows[i][c]) # <<>>
    /\ ~ParseInt(Strip(TheRows[i][c])).ok
BadFloat(i, c) ==
    /\ Len(TheRows[i]) >= c
    /\ Strip(TheRows[i][c]) # <<>>
    /\ ~ParseFloat(RStripPct(Strip(TheRows[i][c]))).ok

Malformed(i) ==
    Len(TheRows[i]) >= 3 /\ Labelled(i) /\ (BadInt(i, 2) \/ BadInt(i, 3) \/ BadFloat(i, 4))
WellFormed(i) ==
    Len(TheRows[i]) >= 4 /\ Labelled(i) /\ ~BadInt(i, 2) /\ ~BadInt(i, 3) /\ ~BadFloat(i, 4)

\* the record a four-cell row describes
RecordOf(i) ==
    [FGM |-> int_cell(TheRows[i][2]).val,
     FGA |-> int_cell(TheRows[i][3]).val,
     FGpct |-> float_cell(TheRows[i][4]).val]

\* C9: a row with malformed numeric text in its made, attempted or percentage
\* cell contributes no entry (every stored record is the whole record of a
\* row that is not malformed), every well-formed row is stored (its zone
\* holds the record of the last well-formed row with that label), and a
\* well-formed row together with a row whose attempt count is not numeric
\* yields only the well-formed zone.
C9_MalformedRowSkipped ==
    Parsed =>
        /\ \A k \in DOMAIN Data :
               \E i \in RowIds :
                   /\ Len(TheRows[i]) >= 4 /\ Labelled(i) /\ ~Malformed(i)
                   /\ ZoneOf(i) = k
                   /\ Data[k] = RecordOf(i)
        /\ \A i \in RowIds :
               WellFormed(i) =>
                   /\ ZoneOf(i) \in DOMAIN Data
                   /\ \E j \in i..Len(TheRows) :
                          /\ WellFormed(j) /\ ZoneOf(j) = ZoneOf(i)
                          /\ \A l \in (j + 1)..Len(TheRows) :
                                 ~(WellFormed(l) /\ ZoneOf(l) = ZoneOf(i))
                          /\ Data[ZoneOf(i)] = RecordOf(j)
        /\ \A i, j \in RowIds :
               (Len(TheRows) = 2 /\ i # j /\ WellFormed(i) /\ Labelled(j)
                    /\ Len(TheRows[j]) >= 4 /\ BadInt(j, 3))
                   => DOMAIN Data = {ZoneOf(i)}

C9_Witness ==
    /\ Parsed
    /\ TheRows = <<GoodRow(Mid_Range),
                   <<PaddedRA, <<"5">>, <<"x">>, <<"5", "0", ".", "0", "%">>>>>>
    /\ DOMAIN Data = {Mid_Range}
    /\ Data[Mid_Range] = [FGM |-> 5, FGA |-> 10, FGpct |-> Float(50, 1)]

\* a row with a label, a made cell and an attempted cell but no fourth cell
NoPctCell(i) ==
    Len(TheRows[i]) = 3 /\ Labelled(i) /\ ~BadInt(i, 2) /\ ~BadInt(i, 3)
\* a row whose fourth cell exists and is blank
BlankPctCell(i) ==
    Len(TheRows[i]) >= 4 /\ Labelled(i) /\ ~BadInt(i, 2) /\ ~BadInt(i, 3)
        /\ Strip(TheRows[i][4]) = <<>>

\* C10 as stated: a row with a label, a made cell and an attempted cell but no
\* fourth cell is stored with percentage 0.
C10_Original ==
    Parsed =>
        \A i \in RowIds :
            (NoPctCell(i) /\ \A j \in RowIds : Labelled(j) /\ ZoneOf(j) = ZoneOf(i) => j = i)
                => /\ ZoneOf(i) \in DOMAIN Data
                   /\ Data[ZoneOf(i)].FGpct = Float(0, 1)

\* C10 amended: a row whose percentage cell is present but blank is stored
\* with percentage 0; a row that has no fourth cell is rejected (it stores
\* nothing).
C10_Amended ==
    Parsed =>
        /\ \A i \in RowIds :
               (BlankPctCell(i) /\ \A j \in RowIds : Labelled(j) /\ ZoneOf(j) = ZoneOf(i) => j = i)
                   => /\ ZoneOf(i) \in DOMAIN Data
                      /\ Data[ZoneOf(i)] = [FGM |-> int_cell(TheRows[i][2]).val,
                                            FGA |-> int_cell(TheRows[i][3]).val,
                                            FGpct |-> Float(0, 1)]
        /\ \A i \in RowIds :
               (NoPctCell(i) /\ \A j \in RowIds : Labelled(j) /\ ZoneOf(j) = ZoneOf(i) => j = i)
                   => ZoneOf(i) \notin DOMAIN Data

C10_Witness ==
    /\ Parsed
    /\ TheRows = <<ShortRow, <<PaddedRA, <<"5">>, <<"1", "0">>, <<>>>>>>
    /\ DOMAIN Data = {Restricted_Area}
    /\ Data[Restricted_Area] = [FGM |-> 5, FGA |-> 10, FGpct |-> Float(0, 1)]

\* the only labelled row of the table with its label
OnlyRowOfZone(i) ==
    Labelled(i) /\ \A j \in RowIds : Labelled(j) /\ ZoneOf(j) = ZoneOf(i) => j = i

\* cell c of the row is absent, resp. present and blank
AbsentCell(i, c) == Len(TheRows[i]) < c
BlankCell(i, c) == Len(TheRows[i]) >= c /\ Strip(TheRows[i][c]) = <<>>

\* apart from count cell c, the cells of the row are well-formed, and the row
\* is not one that merely lacks its percentage cell
OtherCellsFine(i, c) ==
    /\ Len(TheRows[i]) # 3
    /\ \A d \in {2, 3} \ {c} : ~BadInt(i, d)
    /\ ~BadFloat(i, 4)

CountField(c) == IF c = 2 THEN "FGM" ELSE "FGA"

\* C11 as stated: a row whose made or attempted cell is missing or non-numeric
\* is stored with that count set to 0.
C11_Original ==
    Parsed =>
        \A i \in RowIds : \A c \in {2, 3} :
            (OnlyRowOfZone(i) /\ OtherCellsFine(i, c)
                 /\ (AbsentCell(i, c) \/ BlankCell(i, c) \/ BadInt(i, c)))
                => /\ ZoneOf(i) \in DOMAIN Data
                   /\ Data[ZoneOf(i)][CountField(c)] = 0

\* C11 amended: a row whose made or attempted cell is present but blank is
\* stored with that count set to 0; a row whose made or attempted cell is
\* absent or holds non-numeric text stores nothing.
C11_Amended ==
    Parsed =>
        \A i \in RowIds : \A c \in {2, 3} :
            (OnlyRowOfZone(i) /\ OtherCellsFine(i, c)) =>
                /\ (BlankCell(i, c) /\ Len(TheRows[i]) >= 4) =>
                       /\ ZoneOf(i) \in DOMAIN Data
                       /\ Data[ZoneOf(i)][CountField(c)] = 0
                       /\ Data[ZoneOf(i)] = RecordOf(i)
                /\ (AbsentCell(i, c) \/ BadInt(i, c)) => ZoneOf(i) \notin DOMAIN Data

C11_Witness ==
    /\ Parsed
    /\ TheRows = <<<<Mid_Range, <<>>, <<"1", "0">>, <<"5", "0", ".", "0", "%">>>>,
                   <<PaddedRA, <<"5">>, <<"x">>, <<"5", "0", ".", "0", "%">>>>>>
    /\ DOMAIN Data = {Mid_Range}
    /\ Data[Mid_Range] = [FGM |-> 0, FGA |-> 10, FGpct |-> Float(50, 1)]

\* C12: a row whose first cell, after trimming, is empty or equals the header
\* token "Zone" stores no entry: no key of the returned mapping is "" or
\* "Zone", and every key is the trimmed label of a row of the table.
C12_NoHeaderOrEmptyKey ==
    Parsed =>
        /\ EmptyStr \notin DOMAIN Data
        /\ ZoneHeader \notin DOMAIN Data
        /\ \A k \in DOMAIN Data : \E i \in RowIds : Labelled(i) /\ ZoneOf(i) = k
        /\ (\A i \in RowIds : ~Labelled(i)) => Data = EmptyDict

C12_Witness ==
    /\ Parsed
    /\ TheRows = <<GoodRow(ZoneHeader), GoodRow(<<" ">>)>>
    /\ Data = EmptyDict

(***************************************************************************)
(* Properties of the profiles (specifications SpecSample, SpecProfiles).   *)
(***************************************************************************)
Generated == pc = "generated"

\* the zone entries of a profile: every key but the two annotations
ZoneKeys(d) == DOMAIN d \ {KEY_player_name, KEY_season}

\* C13 as stated: every record of every parsed or generated profile with
\* attempted count 0 has percentage 0.
C13_Original ==
    (Parsed \/ Generated) =>
        \A k \in ZoneKeys(Data) : Data[k].FGA = 0 => Data[k].FGpct = Float(0, 1)

\* C13 amended: no generated sample record has attempted count 0; a parsed
\* record with attempted count 0 carries the percentage its row states, which
\* is 0 exactly if the percentage cell is blank or holds a zero.
C13_Amended ==
    /\ Generated => \A k \in ZoneKeys(Data) : Data[k].FGA > 0
    /\ Parsed =>
           \A k \in DOMAIN Data :
               Data[k].FGA = 0 =>
                   \E i \in RowIds :
                       /\ WellFormed(i) /\ ZoneOf(i) = k
                       /\ int_cell(TheRows[i][3]).val = 0
                       /\ Data[k].FGpct = float_cell(TheRows[i][4]).val
                       /\ Data[k].FGpct = Float(0, 1) <=>
                              \/ BlankCell(i, 4)
                              \/ ParseFloat(RStripPct(Strip(TheRows[i][4]))).val = Float(0, 1)

C13_Witness ==
    /\ Parsed
    /\ TheRows = << <<Mid_Range, <<"5">>, <<"0">>, <<"5", "0", ".", "0", "%">>>> >>
    /\ Data[Mid_Range] = [FGM |-> 5, FGA |-> 0, FGpct |-> Float(50, 1)]

(***************************************************************************)
(* Properties of the records get_player_shooting_data returns              *)
(* (specification Spec).                                                   *)
(***************************************************************************)
ReturnedSample == Returned /\ result.kind = "dict" /\ sample_calls = 1
ReturnedExtract == Returned /\ result.kind = "dict" /\ sample_calls = 0

\* the record's percentage is 100 * made / attempted rounded to one decimal
PctComputed(r) == r.FGpct = Tenths(Round1(r.FGM, r.FGA))

\* some well-formed row of the parsed table carries zone k
RowsOfZone(k) == {i \in RowIds : WellFormed(i) /\ ZoneOf(i) = k}

\* C14 as stated: every record of every returned profile with attempted
\* count > 0 has percentage 100 * made / attempted rounded to one decimal,
\* extracted records included.
C14_Original ==
    (Returned /\ result.kind = "dict") =>
        \A k \in ZoneKeys(Data) : Data[k].FGA > 0 => PctComputed(Data[k])

\* C14 amended: every record of a returned fallback profile has attempted
\* count > 0 and percentage 100 * made / attempted rounded to one decimal; a
\* record extracted from a source table carries the number written in the
\* percentage cell of its row, whatever the counts are.
C14_Amended ==
    /\ ReturnedSample =>
           \A k \in ZoneKeys(Data) : Data[k].FGA > 0 /\ PctComputed(Data[k])
    /\ ReturnedExtract =>
           \A k \in ZoneKeys(Data) :
               \E i \in RowsOfZone(k) :
                   /\ Data[k].FGpct = float_cell(TheRows[i][4]).val
                   /\ TheRows[i] = OtherPctRow => Data[k].FGpct = Float(375, 10)

C14_Witness ==
    /\ ReturnedExtract
    /\ TheRows = <<OtherPctRow>>
    /\ Data[Mid_Range] = [FGM |-> 5, FGA |-> 10, FGpct |-> Float(375, 10)]

\* C16 as stated: every record of every returned profile has made >= 0,
\* attempted >= 0 and made <= attempted, whatever the source table holds.
C16_Original ==
    (Returned /\ result.kind = "dict") =>
        \A k \in ZoneKeys(Data) :
            Data[k].FGM >= 0 /\ Data[k].FGA >= 0 /\ Data[k].FGM <= Data[k].FGA

\* C16 amended: every record of a returned fallback profile has
\* 0 <= made <= attempted; a record extracted from a source table carries
\* the integers written in the made and attempted cells of its row (0 for a
\* blank cell), negative or made > attempted included.
C16_Amended ==
    /\ ReturnedSample =>
           \A k \in ZoneKeys(Data) :
               Data[k].FGM >= 0 /\ Data[k].FGM <= Data[k].FGA
    /\ ReturnedExtract =>
           \A k \in ZoneKeys(Data) :
               \E i \in RowsOfZone(k) :
                   /\ Data[k].FGM = int_cell(TheRows[i][2]).val
                   /\ Data[k].FGA = int_cell(TheRows[i][3]).val
                   /\ TheRows[i] = NegativeRow => Data[k].FGM = -3
                   /\ TheRows[i] = MoreMadeRow => Data[k].FGM = 7 /\ Data[k].FGA = 0

C16_Witness ==
    /\ ReturnedExtract
    /\ TheRows = <<NegativeRow>>
    /\ Data[Mid_Range] = [FGM |-> -3, FGA |-> 10, FGpct |-> Float(50, 1)]

(***************************************************************************)
(* Properties of the sample generators (specification SpecSample).         *)
(***************************************************************************)
\* the zone entries of the generated profile
ZoneData == [k \in ZoneKeys(Data) |-> Data[k]]

SixZones ==
    {Restricted_Area, In_The_Paint, Mid_Range, Left_Corner_3, Right_Corner_3,
     Above_the_Break_3}
SevenZones == SixZones \cup {Free_Throws}

\* the hand-authored profiles of the four generators
SampleProfiles ==
    {sample_curry, sample_lebron, sample_generic,
     demo_curry, demo_lebron, demo_durant, demo_generic,
     scatter_curry, scatter_lebron, scatter_durant, scatter_giannis, scatter_generic,
     multi_curry, multi_lebron, multi_durant, multi_giannis, multi_embiid,
     multi_generic}

RecordConsistent(r) ==
    r.FGA > 0 /\ r.FGM >= 0 /\ r.FGM <= r.FGA /\ PctComputed(r)

\* C15: every record of every hand-authored sample profile, in all four
\* generators, has FGA > 0, 0 <= FGM <= FGA and FG% equal to 100 * FGM / FGA
\* rounded to one decimal; so has every record a generator returns.
C15_SampleRecordsConsistent ==
    /\ \A prof \in SampleProfiles : \A k \in DOMAIN prof : RecordConsistent(prof[k])
    /\ Generated =>
           /\ ZoneData \in SampleProfiles
           /\ \A k \in ZoneKeys(Data) : RecordConsistent(Data[k])

C15_Witness ==
    /\ Generated
    /\ callee = "multi_player_charts"
    /\ player_name = JOEL_EMBIID
    /\ Data[Right_Corner_3] = [FGM |-> 18, FGA |-> 45, FGpct |-> Float(40, 1)]
    /\ Data[Free_Throws] = [FGM |-> 250, FGA |-> 300, FGpct |-> Float(833, 10)]

\* C17 as stated: for every name, every generator's profile has exactly the
\* seven zones, the generator of webScraper.py included.
C17_Original ==
    Generated => ZoneKeys(Data) = SevenZones

\* C17 amended: for every name, every generator's profile has the six
\* field-goal zones; the profiles of get_enhanced_sample_data
\* (scatter_charts.py, multi_player_charts.py) have Free Throws as well, the
\* profiles of _create_sample_data (webScraper.py) and of get_sample_data
\* (demo.py) have not.
C17_Amended ==
    Generated =>
        /\ callee \in {"scatter_charts", "multi_player_charts"} =>
               ZoneKeys(Data) = SevenZones
        /\ callee \in {"webScraper", "demo"} => ZoneKeys(Data) = SixZones

C17_Witness ==
    /\ Generated
    /\ callee = "webScraper"
    /\ player_name = Stephen_Curry
    /\ ZoneKeys(Data) = SixZones
    /\ Free_Throws \notin DOMAIN Data

\* the pattern groups in the order the longest generator tests them
PatternGroups ==
    <<{pat_curry}, {pat_lebron, pat_james}, {pat_durant},
      {pat_giannis, pat_antetokounmpo}, {pat_embiid}>>

MatchesGroup(name, g) == \E pat \in PatternGroups[g] : Contains(Lower(name), pat)

\* the first of the groups 1..n the name matches, 0 if it matches none
FirstGroup(name, n) ==
    IF \E g \in 1..n : MatchesGroup(name, g)
    THEN CHOOSE g \in 1..n :
             MatchesGroup(name, g) /\ \A h \in 1..(g - 1) : ~MatchesGroup(name, h)
    ELSE 0

\* how many of the groups a generator tests
GroupsTested(file) ==
    CASE file = "webScraper" -> 2
      [] file = "demo" -> 3
      [] file = "scatter_charts" -> 4
      [] file = "multi_player_charts" -> 5

GenericOf(file) ==
    CASE file = "webScraper" -> sample_generic
      [] file = "demo" -> demo_generic
      [] file = "scatter_charts" -> scatter_generic
      [] file = "multi_player_charts" -> multi_generic

\* the profile a generator holds for group g (g among the groups it tests)
ProfileOf(file, g) ==
    IF g = 0 THEN GenericOf(file)
    ELSE CASE file = "webScraper" -> <<sample_curry, sample_lebron>>[g]
           [] file = "demo" -> <<demo_curry, demo_lebron, demo_durant>>[g]
           [] file = "scatter_charts" ->
                  <<scatter_curry, scatter_lebron, scatter_durant, scatter_giannis>>[g]
           [] file = "multi_player_charts" ->
                  <<multi_curry, multi_lebron, multi_durant, multi_giannis,
                    multi_embiid>>[g]

\* C18 as stated: in every generator, only a name that matches none of the
\* five pattern groups gets the generic profile.
C18_Original ==
    Generated => (ZoneData = GenericOf(callee) <=> FirstGroup(player_name, 5) = 0)

\* C18 amended: each generator tests, case-insensitively and in this order,
\* its own pattern groups: curry, lebron/james (webScraper.py); then durant
\* (demo.py); then giannis/antetokounmpo (scatter_charts.py); then embiid
\* (multi_player_charts.py).  The first group the name matches decides the
\* profile; a name matching none of the generator's own groups gets that
\* generator's generic profile.
C18_Amended ==
    Generated =>
        /\ ZoneData = ProfileOf(callee, FirstGroup(player_name, GroupsTested(callee)))
        /\ (player_name = KEVIN_DURANT /\ callee = "demo") => ZoneData = demo_durant
        /\ (player_name = Curry_James /\ callee = "demo") => ZoneData = demo_curry
        /\ (player_name = Joel_Embiid /\ callee = "scatter_charts") =>
               ZoneData = scatter_generic

C18_Witness ==
    /\ Generated
    /\ callee = "webScraper"
    /\ player_name = Kevin_Durant
    /\ ZoneData = sample_generic

(***************************************************************************)
(* Properties of _calculate_total_stats (specification SpecStats).         *)
(***************************************************************************)
Calculated == pc = "calculated"

ThreePointZones == {Left_Corner_3, Right_Corner_3, Above_the_Break_3}
TwoPointZones == {Restricted_Area, In_The_Paint, Mid_Range}

\* the sum of a field over the zones of Z, all of them keys of the profile;
\* a record without the field counts 0
RECURSIVE SumField(_, _)
SumField(Z, field) ==
    IF Z = {} THEN 0
    ELSE LET z == CHOOSE z \in Z : TRUE
         IN  Get(player_data[z], field, 0) + SumField(Z \ {z}, field)

\* the profile without the keys of K
Without(d, K) == [k \in DOMAIN d \ K |-> d[k]]

\* the copy of _calculate_total_stats that was called, applied to d
SameCopy(d) ==
    IF callee = "scatter_charts" THEN calculate_total_stats_scatter(d)
    ELSE calculate_total_stats_multi(d)

C20_TotalExcludesFreeThrows ==
    Calculated =>
        /\ Data["total_fgm"] = Data["3pt_fgm"] + Data["2pt_fgm"]
        /\ Data["total_fga"] = Data["3pt_fga"] + Data["2pt_fga"]
        /\ Data["total_fg_pct"] =
               IF Data["total_fga"] > 0
               THEN Float(100 * Data["total_fgm"], Data["total_fga"])
               ELSE Float(0, 1)
        /\ \A key \in {"total_fgm", "total_fga", "total_fg_pct"} :
               Data[key] = SameCopy(Without(player_data, {Free_Throws}))[key]

C20_Witness ==
    /\ Calculated
    /\ callee = "multi_player_charts"
    /\ player_data = multi_curry
    /\ Data["ft_fgm"] = 180 /\ Data["ft_fga"] = 200
    /\ Data["total_fgm"] = 253 /\ Data["total_fga"] = 555
    /\ Data["total_fg_pct"] = Float(25300, 555)

\* the categories a copy of _calculate_total_stats computes
Categories ==
    IF callee = "scatter_charts" THEN {"total", "3pt", "2pt"}
    ELSE {"total", "3pt", "2pt", "ft"}

Fga(cat) == Data[cat \o "_fga"]
Fgm(cat) == Data[cat \o "_fgm"]
FgPct(cat) == Data[cat \o "_fg_pct"]

CallIds == DOMAIN calls

GeneratorCalls == {i \in CallIds : calls[i].fn # "caller"}

CurryNames == {Stephen_Curry, curry_query, STEPHEN_CURRY, Curry_James, James_Curry}

\* C24: for every name containing "curry" in any letter case, the generated
\* profile's Restricted Area record is made 45, attempted 60, percentage
\* 75.0, in each of the four generators.
C24_CurryRestrictedArea ==
    Generated =>
        /\ (Contains(Lower(player_name), pat_curry) \/ player_name \in CurryNames) =>
               Data[Restricted_Area] = [FGM |-> 45, FGA |-> 60, FGpct |-> Float(75, 1)]
        /\ player_name \in CurryNames <=> Contains(Lower(player_name), pat_curry)

C24_Witness ==
    /\ Generated
    /\ callee = "webScraper"
    /\ player_name = Curry_James
    /\ Data[Restricted_Area] = [FGM |-> 45, FGA |-> 60, FGpct |-> Float(75, 1)]

\* the pattern groups the name matches
MatchedGroups(name) == {g \in 1..5 : MatchesGroup(name, g)}
Earliest(G) == CHOOSE g \in G : \A h \in G : g <= h

StageOrder == <<"search", "page", "subpage">>

\* C25: within one call no stage is retried: the requests made so far are,
\* in this order, at most one search, at most one player page and at most
\* one shooting sub-page, so at most three; the player page is requested
\* only after the search answered and gave an identifier, the sub-page only
\* after the player page was fetched; a failed request is the last one.
C25_NoRetry ==
    /\ Len(requests) <= 3
    /\ \A i \in 1..Len(requests) : requests[i].url = StageOrder[i]
    /\ Len(requests) >= 2 => requests[1].ok /\ ~IsFalsy(player_url)
    /\ Len(requests) >= 3 => requests[2].ok /\ shooting_url # None
    /\ \A i \in 1..Len(requests) : ~requests[i].ok => i = Len(requests)

C25_Witness ==
    /\ Returned
    /\ Len(requests) = 3
    /\ requests[1].ok /\ requests[2].ok /\ ~requests[3].ok
    /\ sample_calls = 1

(***************************************************************************)
(* Properties of the search for the shooting table (specification Spec).   *)
(***************************************************************************)
\* the player page was fetched and parsed
PageFetched == Len(requests) >= 2 /\ requests[2].ok

\* the season links of the player page whose href, resp. text, has "shooting"
HrefCandidates ==
    {i \in DOMAIN soup.links :
        /\ MatchesSeasonHref(soup.links[i].href, season)
        /\ Contains(soup.links[i].href, pat_shooting)}
TextCandidates ==
    {i \in DOMAIN soup.links :
        /\ MatchesSeasonHref(soup.links[i].href, season)
        /\ Contains(Lower(soup.links[i].text), pat_shooting)}

\* the href of the first link among the candidates, None without candidates
FirstOf(C) ==
    IF C = {} THEN None
    ELSE soup.links[CHOOSE i \in C : \A j \in C : i <= j].href

\* tier (a): a table on the main page is used, and no sub-page is requested
MainTableUsed ==
    (PageFetched /\ soup.table.present) =>
        /\ Returned
        /\ Len(requests) = 2
        /\ shooting_url = None
        /\ sample_calls = 0
        /\ shooting_table = soup.table

\* tier (c): past both requests, the sample generator is called exactly if
\* neither the main page nor the sub-page consulted has a table
SampleOnlyWithoutTable ==
    (Returned /\ PageFetched /\ \A i \in 1..Len(requests) : requests[i].ok) =>
        (sample_calls = 1 <=>
            /\ ~soup.table.present
            /\ shooting_url = None \/ ~shooting_soup.table.present)

\* C26 as stated: tier (b) consults the season-specific link whose text
\* references "shooting".
C26_Original ==
    /\ MainTableUsed
    /\ (PageFetched /\ ~soup.table.present) => shooting_url = FirstOf(TextCandidates)
    /\ SampleOnlyWithoutTable

\* C26 amended: a table on the main page is used whenever present, and no
\* sub-page is then requested; otherwise the first season-specific link whose
\* href contains "shooting" is consulted, whatever its text says; the sample
\* generator is reached from this stage only if neither yields a table.
C26_Amended ==
    /\ MainTableUsed
    /\ (PageFetched /\ ~soup.table.present) =>
           /\ shooting_url = FirstOf(HrefCandidates)
           /\ shooting_url # None => Contains(shooting_url, pat_shooting)
           /\ (shooting_url # None /\ Returned) => Len(requests) = 3
           /\ (shooting_url = None /\ Returned) => Len(requests) = 2
    /\ SampleOnlyWithoutTable

C26_Witness ==
    /\ Returned
    /\ season = Season2023
    /\ ~soup.table.present
    /\ soup.links = <<[text |-> Shooting_text, href |-> href_splits_2024],
                      [text |-> Advanced_text, href |-> href_shooting_2023]>>
    /\ shooting_url = href_shooting_2023
    /\ Len(requests) = 3 /\ requests[3].ok
    /\ shooting_soup.table.present
    /\ sample_calls = 0

(***************************************************************************)
(* Properties of what get_player_shooting_data hands to its caller         *)
(* (specification Spec).                                                   *)
(***************************************************************************)
\* C27: whichever of the search, the page fetch, the sub-page fetch or the
\* table parsing fails, the call ends by returning a value, never by raising:
\* after a failed request the call has returned or (for the search) is about
\* to return None, and the value returned is either None or a mapping with a
\* player_name and a season entry.
C27_AlwaysReturnsValue ==
    /\ (requests # <<>> /\ ~requests[Len(requests)].ok) =>
           \/ Returned
           \/ pc = "searched" /\ player_url = None /\ ENABLED NotFound
    /\ pc \in {"idle", "searched", "located", "subpage", "done"}
    /\ Returned =>
           \/ result = NoneResult
           \/ /\ result.kind = "dict"
              /\ {KEY_player_name, KEY_season} \subseteq DOMAIN Data
              /\ Data[KEY_player_name] = player_name
    /\ ~Returned => result = NoResult

C27_Witness ==
    /\ Returned
    /\ Len(requests) = 3 /\ requests[3].ok
    /\ TheRows = <<BadAttRow>>
    /\ sample_calls = 0
    /\ DOMAIN Data = {KEY_player_name, KEY_season}

(***************************************************************************)
(* The four sample generators against one another (specification           *)
(* SpecSample).                                                            *)
(***************************************************************************)
\* the name contains none of "durant", "giannis", "antetokounmpo", "embiid"
NoLaterPattern(name) == \A g \in 3..5 : ~MatchesGroup(name, g)

\* what each of the four generators returns for the name
GeneratorReturns(name) ==
    {create_sample_data(name), get_sample_data(name),
     get_enhanced_sample_data_scatter(name), get_enhanced_sample_data_multi(name)}

FieldGoalZones(d) == [z \in SixZones |-> d[z]]

FieldGoalKeys ==
    {"total_fga", "total_fgm", "total_fg_pct", "3pt_fga", "3pt_fgm", "3pt_fg_pct",
     "2pt_fga", "2pt_fgm", "2pt_fg_pct"}

FieldGoalStats(stats) == [k \in FieldGoalKeys |-> stats[k]]

\* C29: for a name containing none of "durant", "giannis", "antetokounmpo",
\* "embiid", the generator called returns, for each of the six field-goal
\* zones, the FGM/FGA/FG% record every one of the four generators returns, and
\* both copies of _calculate_total_stats give the same 3pt, 2pt and total
\* figures on all four returns (for a name matching no pattern: 105 of 290
\* threes, 190 of 350 twos, 295 of 640 in total).
C29_GeneratorsAgree ==
    (Generated /\ NoLaterPattern(player_name)) =>
        /\ SixZones \subseteq DOMAIN Data
        /\ \A d \in GeneratorReturns(player_name) :
               /\ SixZones \subseteq DOMAIN d
               /\ FieldGoalZones(d) = FieldGoalZones(Data)
               /\ FieldGoalStats(calculate_total_stats_multi(d))
                      = FieldGoalStats(calculate_total_stats_multi(Data))
               /\ calculate_total_stats_scatter(d) = calculate_total_stats_scatter(Data)
               /\ FieldGoalStats(calculate_total_stats_multi(d))
                      = calculate_total_stats_scatter(d)
        /\ FirstGroup(player_name, 2) = 0 =>
               /\ FieldGoalZones(Data) = sample_generic
               /\ calculate_total_stats_scatter(Data) =
                      [k \in FieldGoalKeys |->
                          CASE k = "total_fga" -> 640
                            [] k = "total_fgm" -> 295
                            [] k = "total_fg_pct" -> Float(29500, 640)
                            [] k = "3pt_fga" -> 290
                            [] k = "3pt_fgm" -> 105
                            [] k = "3pt_fg_pct" -> Float(10500, 290)
                            [] k = "2pt_fga" -> 350
                            [] k = "2pt_fgm" -> 190
                            [] k = "2pt_fg_pct" -> Float(19000, 350)]

C29_Witness ==
    /\ Generated
    /\ callee = "demo"
    /\ player_name = Luka_Doncic
    /\ NoLaterPattern(player_name)
    /\ FieldGoalZones(Data) = FieldGoalZones(get_enhanced_sample_data_multi(player_name))
    /\ Free_Throws \in DOMAIN get_enhanced_sample_data_multi(player_name)
    /\ calculate_total_stats_multi(Data)["3pt_fgm"] = 105

=============================================================================
